---- MODULE Spec2Model ----
(***************************************************************************)
(* Pro-Terra: the hydraulic erosion engine (services/ErosionSimulator.js)  *)
(* as a state machine.                                                     *)
(*                                                                         *)
(* Number representation.  The engine computes in JavaScript numbers; the  *)
(* model computes in fixed point:                                          *)
(*   - a droplet scalar (speed, water, sediment, a parameter) v is the     *)
(*     integer v * Scale;                                                  *)
(*   - a position x is the integer x * PosScale (PosScale sub-steps per    *)
(*     cell), so a bilinear weight is a * b / Fine with a, b in            *)
(*     0..PosScale and Fine = PosScale^2;                                  *)
(*   - a height h is the integer h * Scale * Fine, so that the share       *)
(*     value * weight of a deposit is an integer number of height units    *)
(*     and the four shares add up to the value without rounding;           *)
(*   - products and quotients round toward zero where the code's floats    *)
(*     round to nearest.                                                   *)
(***************************************************************************)
EXTENDS Integers, Sequences, FiniteSets, TLC

VARIABLES
  width,          \* this.width
  height,         \* this.height
  heightMap,      \* this.heightMap: sequence of width*height heights, row-major
  params,         \* this.params
  poolDefined,    \* whether this.droplets has been assigned (it is undefined after construction)
  droplets,       \* this.droplets: sequence of droplet records
  dropletsActive, \* this.dropletsActive: "undefined", "true" or "false"
  returned,       \* what the most recent call returned, when it was stepDroplets: "true",
                  \* "false" or "throws"; "none" after any other call
  cloned,         \* the array the most recent call returned, when it was cloneHeightMap;
                  \* NoGrid after any other call
  lastReset,      \* history: the array the most recent resetHeightMap was given, while no
                  \* call other than cloneHeightMap followed it; NoGrid otherwise
  advances,       \* history: advances[i] = number of times droplets[i] went through the step body
  starts,         \* history: number of start() calls so far
  fedNegative,    \* history: whether a grid with a negative cell was ever handed to the engine
  heap,           \* the Float32Arrays of the program, by identity: heap[r] holds the
                  \* elements of array r
  thisHeightMap,  \* the identity of the array this.heightMap refers to
  callerArrays,   \* the identities of the arrays code outside the engine holds: those it
                  \* passed in and those it was handed
  query,          \* the position (x, y) of the most recent height and gradient query;
                  \* NoQuery before the first
  answer,         \* what _bilinearInterp and _calcGradient returned for it
  flowPc,         \* where the call of computeFlowMap is: "none" (no call), "called",
                  \* "accumulate" (in the loop over indices) or "returned"
  flowHeights,    \* computeFlowMap: the argument heightMap, row-major
  downslope,      \* computeFlowMap: downslope[idx + 1] is the cell that cell idx drains to
  indices,        \* computeFlowMap: the cells in the order of the accumulation loop
  flowMap,        \* computeFlowMap: flowMap[idx + 1] is the flow of cell idx
  flowAt,         \* computeFlowMap: how many entries of indices the loop has been through
  mathRandom,     \* the global Math.random: 0 is the built-in one, s > 0 is the function
                  \* setSeed installed, with its variable s
  generated,      \* history: the calls of generateTerrainInternal so far, each with its
                  \* params, what it returned and the mathRandom and starts it was made at
  surface,        \* the heights a smoothing post-pass is called on, row-major
  smoothed,       \* the most recent smoothing call: the function called, its
                  \* smoothingParams and the heights it left; NoCall before the first
  worleyRun,      \* the most recent terrain generation whose cellular-noise backend
                  \* is followed: the function called, its params, what the backend
                  \* did, the noise object in use and the outcome; NoCall before the first
  scatterLayers,  \* terrain worker: the enabled flags of params.scatterLayers
  terrainPc,      \* terrain worker: "none" (no request), "requested" (the 'generate'
                  \* message is on its way) or "ran" (onmessage has run)
  posted,         \* terrain worker: the messages the worker posted, in order
  received,       \* TerrainWorkerService: how many of them its onmessage has handled
  original,       \* the caller's Float32Array heightMapRef.current.original: whether its
                  \* buffer is detached, and its elements
  handlers,       \* ErosionWorkerService: this.handlers, a promise (by its number in
                  \* promises) for the handler that resolves it, 0 for null or undefined
  promises,       \* the promises init, step and reset returned, in the order of the
                  \* calls: kind, state, the request whose reply resolved it, and what
                  \* the caller chained to it with then
  toWorker,       \* the messages posted to the erosion worker and not yet handled
  toMain,         \* the messages the erosion worker posted and not yet handled
  hmRef,          \* the driver's heightMapRef.current.hm
  erosionWorkerRef, \* the driver's erosionWorkerRef.current is set
  erosionRunning, \* the driver's state erosionRunning
  erosionProgress, \* the driver's state erosionProgress, as a numerator over
                  \* erosionDroplets; -1 is undefined
  timers,         \* the number of setTimeout(runBatch, 0) callbacks that are due
  pauses,         \* the number of pause() calls made
  stopAt          \* history: the number of step requests made when Stop was requested;
                  \* -1 before

\* the fields of the engine and the history of its calls
engineVars == <<width, height, heightMap, params, poolDefined, droplets, dropletsActive,
                returned, cloned, lastReset, advances, starts, fedNegative>>

\* the arrays by identity
callerVars == <<heap, thisHeightMap, callerArrays>>

\* a height and gradient query
queryVars == <<query, answer>>

\* the call of computeFlowMap
flowVars == <<flowPc, flowHeights, downslope, indices, flowMap, flowAt>>

\* the terrain generator and the global it shares with the rest of the program
genVars == <<mathRandom, generated>>

\* the smoothing post-pass called on its own
smoothVars == <<surface, smoothed>>

\* a terrain generation with its cellular-noise backend
worleyVars == <<worleyRun>>

\* the services around the engine and the generator
\* one request to the terrain worker
progressVars == <<scatterLayers, terrainPc, posted, received>>

\* the erosion worker, ErosionWorkerService and the application's driver
workerVars == <<original, handlers, promises, toWorker, toMain, hmRef, erosionWorkerRef,
                erosionRunning, erosionProgress, timers, pauses, stopAt>>

serviceVars == <<smoothVars, worleyVars, progressVars, workerVars>>

\* what the calls on the engine alone leave as it is
restVars == <<callerVars, queryVars, flowVars, genVars, serviceVars>>
\* what the calls that follow the arrays by identity leave as it is
besideCaller == <<queryVars, flowVars, genVars, serviceVars>>
\* what a query leaves as it is
besideQuery == <<engineVars, callerVars, flowVars, genVars, serviceVars>>
\* what computeFlowMap leaves as it is
besideFlow == <<engineVars, callerVars, queryVars, genVars, serviceVars>>
\* what the generator and setSeed leave as they are, the engine apart
besideGen == <<callerVars, queryVars, flowVars, serviceVars>>
\* what a smoothing call leaves as it is
besideSmooth == <<engineVars, callerVars, queryVars, flowVars, genVars, worleyVars,
                  progressVars, workerVars>>
\* what a terrain generation leaves as it is
besideWorley == <<engineVars, callerVars, queryVars, flowVars, genVars, smoothVars,
                  progressVars, workerVars>>
\* what the terrain worker and its service leave as they are
besideProgress == <<engineVars, callerVars, queryVars, flowVars, genVars, smoothVars,
                    worleyVars, workerVars>>
\* what the erosion worker, its service and the driver leave as they are, the
\* engine apart
besideWorker == <<callerVars, queryVars, flowVars, genVars, smoothVars, worleyVars,
                  progressVars>>

vars == <<engineVars, restVars>>

\* ------------------------------------------------------------------ bounds

\* the resolution of a droplet scalar: 1.0 is Scale
Scale == 100
\* the resolution of a position: a cell is PosScale sub-steps wide
PosScale == 2
\* the largest pool start() is asked for
MaxDroplets == 2
\* the largest batchSize stepDroplets() is called with
MaxBatch == 2
\* the number of start() calls on one engine
MaxStarts == 2

Fine == PosScale * PosScale
HScale == Scale * Fine

\* ------------------------------------------------------------- arithmetic

Max(a, b) == IF a >= b THEN a ELSE b
Min(a, b) == IF a <= b THEN a ELSE b
Sign(a) == IF a > 0 THEN 1 ELSE IF a < 0 THEN -1 ELSE 0

\* n / d rounded toward zero (d > 0)
Trunc(n, d) == IF n >= 0 THEN n \div d ELSE -((-n) \div d)

\* Math.floor(n / d) (d > 0)
Floor(n, d) == n \div d

RECURSIVE SqrtSearch(_, _, _)
SqrtSearch(n, lo, hi) ==
  IF lo >= hi THEN lo
  ELSE LET mid == (lo + hi + 1) \div 2
       IN IF mid * mid <= n THEN SqrtSearch(n, mid, hi) ELSE SqrtSearch(n, lo, mid - 1)

\* Math.sqrt on a fixed-point square: the largest r with r*r <= n
Sqrt(n) == SqrtSearch(n, 0, Min(n, 46340))

RECURSIVE SumSeq(_, _)
SumSeq(s, i) == IF i = 0 THEN 0 ELSE s[i] + SumSeq(s, i - 1)

\* the sum of all cells of a grid
GridSum(hm) == SumSeq(hm, Len(hm))

\* ------------------------------------------------- ErosionSimulator: reads

\* toIndex = (x, y) => y * width + x, on a sequence indexed from 1
ToIndex(w, x, y) == y * w + x + 1

CellOf(pos) == Floor(pos, PosScale)
OffOf(pos) == pos - CellOf(pos) * PosScale

\* the test of _bilinearInterp that answers 0 instead of reading
InterpFallback(w, h, cellX, cellY) ==
  cellX < 0 \/ cellY < 0 \/ cellX >= w - 1 \/ cellY >= h - 1

\* _bilinearInterp(heightMap, x, y): the height at a continuous position, in
\* height units; 0 outside the grid
BilinearInterp(hm, w, h, x, y) ==
  LET cellX == CellOf(x)
      cellY == CellOf(y)
      offX == OffOf(x)
      offY == OffOf(y)
  IN IF InterpFallback(w, h, cellX, cellY) THEN 0
     ELSE LET h00 == hm[ToIndex(w, cellX, cellY)]
              h10 == hm[ToIndex(w, cellX + 1, cellY)]
              h01 == hm[ToIndex(w, cellX, cellY + 1)]
              h11 == hm[ToIndex(w, cellX + 1, cellY + 1)]
          IN Trunc(h00 * (PosScale - offX) * (PosScale - offY) + h10 * offX * (PosScale - offY)
                   + h01 * (PosScale - offX) * offY + h11 * offX * offY, Fine)

\* variant: _calcGradient tests the cell as _bilinearInterp does
GradientFallbackAsInterp(w, h, cellX, cellY) ==
  cellX < 0 \/ cellY < 0 \/ cellX >= w - 1 \/ cellY >= h - 1

\* the test of _calcGradient that answers (0, 0) instead of sampling
GradientFallback(w, h, cellX, cellY) ==
  cellX < 1 \/ cellY < 1 \/ cellX >= w - 2 \/ cellY >= h - 2

\* _calcGradient(heightMap, x, y): central differences of the interpolated
\* height.  gx stands for (hR - hL) * 0.5 in units of half a height unit.
CalcGradient(hm, w, h, x, y) ==
  LET cellX == CellOf(x)
      cellY == CellOf(y)
  IN IF GradientFallback(w, h, cellX, cellY) THEN [gx |-> 0, gy |-> 0]
     ELSE LET hL == BilinearInterp(hm, w, h, x - PosScale, y)
              hR == BilinearInterp(hm, w, h, x + PosScale, y)
              hD == BilinearInterp(hm, w, h, x, y - PosScale)
              hU == BilinearInterp(hm, w, h, x, y + PosScale)
          IN [gx |-> hR - hL, gy |-> hU - hD]

\* ------------------------------------------------ ErosionSimulator: writes

\* variant: the corners are written back without the clamp
NoClamp(v) == v

\* Math.max(0, v) of the clamp in _bilinearAdd
ClampCell(v) == Max(0, v)

\* _bilinearAdd(heightMap, x, y, offX, offY, value): value (a droplet scalar)
\* is spread over the 4 corners of cell (x, y) by the bilinear weights of
\* (offX, offY), then the 4 corners are clamped to >= 0
BilinearAdd(hm, w, h, x, y, offX, offY, value) ==
  LET w00 == (PosScale - offX) * (PosScale - offY)
      w10 == offX * (PosScale - offY)
      w01 == (PosScale - offX) * offY
      w11 == offX * offY
      i00 == ToIndex(w, x, y)
      i10 == ToIndex(w, x + 1, y)
      i01 == ToIndex(w, x, y + 1)
      i11 == ToIndex(w, x + 1, y + 1)
  IN IF x >= 0 /\ y >= 0 /\ x < w - 1 /\ y < h - 1
     THEN [hm EXCEPT ![i00] = ClampCell(@ + value * w00),
                     ![i10] = ClampCell(@ + value * w10),
                     ![i01] = ClampCell(@ + value * w01),
                     ![i11] = ClampCell(@ + value * w11)]
     ELSE hm

\* --------------------------------------- ErosionSimulator: one droplet step

\* a direction component v of a vector of squared length n, divided by the
\* length and rounded to the position grid: d.dx /= len
Normalized(v, n) ==
  Sign(v) * Cardinality({k \in 1..PosScale :
                           (2 * k - 1) * (2 * k - 1) * n <= 4 * Fine * v * v})

\* the kill test that ends a completed step
Expired(water, lifetime, speed, p) ==
  water < p.minVolume \/ lifetime > p.maxDropletLifetime \/ speed < Scale \div 100

\* the cells an erosion or a deposit is spread over: the cell and offsets
\* computed at the top of the step, before the droplet moves
TransferAt(d0, d1) == [cellX |-> CellOf(d0.x), cellY |-> CellOf(d0.y),
                       offX |-> OffOf(d0.x), offY |-> OffOf(d0.y)]

\* d.dx * inertia - grad.gx * (1 - inertia), in units of half a height unit
Blend(dir, g, p) == dir * 2 * PosScale * p.inertia - Trunc(g * (Scale - p.inertia), Scale)

\* len = Math.hypot(d.dx, d.dy); if (len !== 0) { d.dx /= len; d.dy /= len }
Normalize(vx, vy, len2) ==
  [dx |-> IF len2 # 0 THEN Normalized(vx, len2) ELSE 0,
   dy |-> IF len2 # 0 THEN Normalized(vy, len2) ELSE 0]

\* d.x += d.dx; d.y += d.dy
MoveBy(d, dir) ==
  [d EXCEPT !.dx = dir.dx, !.dy = dir.dy, !.x = d.x + dir.dx, !.y = d.y + dir.dy]

\* the droplet after the new direction is blended, normalised and followed
Move(d, vx, vy) == MoveBy(d, Normalize(vx, vy, vx * vx + vy * vy))

\* variant: the border test lets a droplet stay on the outermost cells
OutsideGrid(d, w, h) ==
  d.x < 0 \/ d.x > (w - 1) * PosScale \/ d.y < 0 \/ d.y > (h - 1) * PosScale

\* the border test that ends a droplet: x < 1 || x > width - 2 || y < 1 || y > height - 2
OutOfBounds(d, w, h) ==
  d.x < PosScale \/ d.x > (w - 2) * PosScale \/ d.y < PosScale \/ d.y > (h - 2) * PosScale

\* Math.sqrt(Math.max(0, d.speed * d.speed - deltaH * 9.81)) * (1 - friction);
\* deltaH is in height units
Speed(speed, deltaH, p) ==
  Trunc(Sqrt(Max(0, speed * speed - Trunc(981 * deltaH * Scale, 100 * Fine)))
        * (Scale - p.friction), Scale)

\* Math.max(-deltaH, 0.01) * d.speed * d.water * sedimentCapacityFactor
Capacity(deltaH, speed, water, p) ==
  Trunc(Trunc(Trunc(Max(Trunc(-deltaH, Fine), Scale \div 100) * speed, Scale)
              * water, Scale) * p.sedimentCapacityFactor, Scale)

\* the deposit branch: amount is added at the transfer cell and leaves the droplet
Deposit(sediment, hm, w, h, at, amount) ==
  [sediment |-> sediment - amount,
   hm |-> BilinearAdd(hm, w, h, at.cellX, at.cellY, at.offX, at.offY, amount)]

\* the erode branch: if (erode > 0), amount is taken at the transfer cell
\* and joins the droplet
Erode(sediment, hm, w, h, at, amount) ==
  IF amount > 0
  THEN [sediment |-> sediment + amount,
        hm |-> BilinearAdd(hm, w, h, at.cellX, at.cellY, at.offX, at.offY, -amount)]
  ELSE [sediment |-> sediment, hm |-> hm]

\* if (d.sediment > capacity) deposit (d.sediment - capacity) * depositionRate,
\* else erode Math.min((capacity - d.sediment) * depositionRate, newH)
Transfer(sediment, capacity, newH, hm, w, h, at, p) ==
  IF sediment > capacity
  THEN Deposit(sediment, hm, w, h, at, Trunc((sediment - capacity) * p.depositionRate, Scale))
  ELSE Erode(sediment, hm, w, h, at,
             Min(Trunc((capacity - sediment) * p.depositionRate, Scale), Floor(newH, Fine)))

\* the end of a completed step: the water evaporates, the lifetime is
\* counted and the kill test is applied
Finish(moved, speed, tr, water, lifetime, p) ==
  [d |-> [moved EXCEPT !.speed = speed, !.sediment = tr.sediment, !.water = water,
                       !.lifetime = lifetime,
                       !.alive = ~Expired(water, lifetime, speed, p)],
   hm |-> tr.hm]

\* a step from the new speed on
Carry(d, moved, newH, deltaH, speed, hm, w, h, p) ==
  Finish(moved, speed,
         Transfer(d.sediment, Capacity(deltaH, speed, d.water, p), newH, hm, w, h,
                  TransferAt(d, moved), p),
         Trunc(d.water * (Scale - p.evaporationRate), Scale), d.lifetime + 1, p)

\* a step from the new height on
Flow(d, moved, hOld, newH, hm, w, h, p) ==
  Carry(d, moved, newH, newH - hOld, Speed(d.speed, newH - hOld, p), hm, w, h, p)

\* variant: the lifetime is counted before the border test, so a droplet
\* ended at the border has its last step counted as well
AfterMoveCountsKill(d, moved, hOld, hm, w, h, p) ==
  IF OutOfBounds(moved, w, h)
  THEN [d |-> [moved EXCEPT !.alive = FALSE, !.lifetime = d.lifetime + 1], hm |-> hm]
  ELSE Flow(d, moved, hOld, BilinearInterp(hm, w, h, moved.x, moved.y), hm, w, h, p)

\* a step from the move on: a droplet that left the interior is ended and
\* the rest of the step is skipped (continue)
AfterMove(d, moved, hOld, hm, w, h, p) ==
  IF OutOfBounds(moved, w, h)
  THEN [d |-> [moved EXCEPT !.alive = FALSE], hm |-> hm]
  ELSE Flow(d, moved, hOld, BilinearInterp(hm, w, h, moved.x, moved.y), hm, w, h, p)

\* a step from the gradient on
Descend(d, hOld, grad, hm, w, h, p) ==
  AfterMove(d, Move(d, Blend(d.dx, grad.gx, p), Blend(d.dy, grad.gy, p)), hOld, hm, w, h, p)

\* the body of the per-droplet loop of stepDroplets for one alive droplet d:
\* the droplet and the heightfield after it
StepDroplet(d, hm, w, h, p) ==
  Descend(d, BilinearInterp(hm, w, h, d.x, d.y), CalcGradient(hm, w, h, d.x, d.y), hm, w, h, p)

\* --------------------------------------------- ErosionSimulator: the batch

\* variant: the batch counter is compared with <=
LoopContinuesInclusive(i, n, activeCount, batchSize) == i <= n /\ activeCount <= batchSize

\* the loop condition of stepDroplets: i < this.droplets.length && activeCount < batchSize
\* (i counts from 1 here)
LoopContinues(i, n, activeCount, batchSize) == i <= n /\ activeCount < batchSize

\* variant: activeCount is incremented before the alive test, so that dead
\* droplets use up the batch
RECURSIVE StepLoopCountsDead(_, _, _, _, _, _, _, _, _)
SteppedCountsDead(i, activeCount, batchSize, ds, r, adv, w, h, p) ==
  StepLoopCountsDead(i + 1, activeCount + 1, batchSize, [ds EXCEPT ![i] = r.d], r.hm,
                     [adv EXCEPT ![i] = @ + 1], w, h, p)

StepLoopCountsDead(i, activeCount, batchSize, ds, hm, adv, w, h, p) ==
  IF ~LoopContinues(i, Len(ds), activeCount, batchSize)
  THEN [droplets |-> ds, heightMap |-> hm, advances |-> adv]
  ELSE IF ~ds[i].alive
       THEN StepLoopCountsDead(i + 1, activeCount + 1, batchSize, ds, hm, adv, w, h, p)
       ELSE SteppedCountsDead(i, activeCount, batchSize, ds, StepDroplet(ds[i], hm, w, h, p),
                              adv, w, h, p)

\* variant: the loop runs from the last droplet down to the first
RECURSIVE StepLoopDescending(_, _, _, _, _, _, _, _, _)
SteppedDescending(i, activeCount, batchSize, ds, r, adv, w, h, p) ==
  StepLoopDescending(i + 1, activeCount + 1, batchSize,
                     [ds EXCEPT ![Len(ds) + 1 - i] = r.d], r.hm,
                     [adv EXCEPT ![Len(ds) + 1 - i] = @ + 1], w, h, p)

StepLoopDescending(i, activeCount, batchSize, ds, hm, adv, w, h, p) ==
  IF ~LoopContinues(i, Len(ds), activeCount, batchSize)
  THEN [droplets |-> ds, heightMap |-> hm, advances |-> adv]
  ELSE IF ~ds[Len(ds) + 1 - i].alive
       THEN StepLoopDescending(i + 1, activeCount, batchSize, ds, hm, adv, w, h, p)
       ELSE SteppedDescending(i, activeCount, batchSize, ds,
                              StepDroplet(ds[Len(ds) + 1 - i], hm, w, h, p), adv, w, h, p)

\* the for loop of stepDroplets from index i on: dead droplets are skipped,
\* each alive one is counted and stepped once, on the heightfield the earlier
\* ones left.  adv counts the executions of the step body per droplet.
RECURSIVE StepLoop(_, _, _, _, _, _, _, _, _)

\* the rest of the loop after droplet i was stepped with result r
Stepped(i, activeCount, batchSize, ds, r, adv, w, h, p) ==
  StepLoop(i + 1, activeCount + 1, batchSize, [ds EXCEPT ![i] = r.d], r.hm,
           [adv EXCEPT ![i] = @ + 1], w, h, p)

StepLoop(i, activeCount, batchSize, ds, hm, adv, w, h, p) ==
  IF ~LoopContinues(i, Len(ds), activeCount, batchSize)
  THEN [droplets |-> ds, heightMap |-> hm, advances |-> adv]
  ELSE IF ~ds[i].alive
       THEN StepLoop(i + 1, activeCount, batchSize, ds, hm, adv, w, h, p)
       ELSE Stepped(i, activeCount, batchSize, ds, StepDroplet(ds[i], hm, w, h, p),
                    adv, w, h, p)

\* variant: this.droplets.length > 0
AnyDroplet(ds) == Len(ds) > 0

\* this.droplets.some(d => d.alive)
AnyAlive(ds) == \E i \in 1..Len(ds) : ds[i].alive

\* ------------------------------------------------------------------ inputs

\* the grids handed to the engine, by name, for any dimensions; heights in
\* units of 1/4 (so that every corner weight divides them):
\*   cliff  a plateau that drops toward the high-x border, with one cell at 0
\*          on the plateau's edge
\*   basin  a plain at height 1 with one cell below zero
Quarter == HScale \div 4

CliffProfile(x) ==
  CASE x <= 1 -> 20
    [] x = 2 -> 12
    [] x = 3 -> 4
    [] OTHER -> 2

TerrainHeight(name, x, y) ==
  CASE name = "cliff" -> IF x = 1 /\ y = 2 THEN 0 ELSE CliffProfile(x) * Quarter
    [] name = "basin" -> IF x = 1 /\ y = 1 THEN -2 * Quarter ELSE 4 * Quarter

Terrain(name, w, h) ==
  [i \in 1..(w * h) |-> TerrainHeight(name, (i - 1) % w, (i - 1) \div w)]

TerrainNames == {"cliff", "basin"}

\* the dimensions an engine is constructed with
Dimensions == {<<5, 4>>}

\* the grids of the engine's dimensions a caller resets to
ResetGrids(w, h) == {Terrain("cliff", w, h)}

HasNegative(hm) == \E i \in 1..Len(hm) : hm[i] < 0

\* this.params: the defaults of the constructor, and parameter sets a caller
\* passes (a short lifetime; no friction and no minimum volume, so that only
\* the lifetime ends a droplet at rest)
DefaultParams ==
  [inertia |-> Scale \div 20, friction |-> Scale \div 50,
   sedimentCapacityFactor |-> 4 * Scale, depositionRate |-> (3 * Scale) \div 10,
   evaporationRate |-> Scale \div 100, minVolume |-> Scale \div 100,
   initialVolume |-> Scale, initialSpeed |-> Scale, maxDropletLifetime |-> 30]

ParamSets ==
  {[DefaultParams EXCEPT !.maxDropletLifetime = 2],
   [DefaultParams EXCEPT !.maxDropletLifetime = 3, !.friction = 0, !.minVolume = 0,
                         !.evaporationRate = Scale \div 2, !.inertia = Scale \div 2,
                         !.depositionRate = Scale]}

\* the values Math.random() returns, as numerators over RandomDen: 1/4 and 3/4
RandomDen == 8
RandomValues == {2, 6}
\* 0, 1/4 and 7/8: the least value, and one so close to 1 that the droplet is
\* created beyond width - 2 and height - 2
EdgeValues == {0, 2, 7}

\* ------------------------------------------------------------------- state

\* variant: new Int32Array(src), which drops every element's fraction
Int32Copy(src) == [i \in 1..Len(src) |-> Trunc(src[i], HScale) * HScale]

\* new Float32Array(src): a fresh array holding src's elements (src is a
\* Float32Array, so every element is stored as it is)
Float32Copy(src) == [i \in 1..Len(src) |-> src[i]]

NoGrid == <<>>

\* new ErosionSimulator(width, height, heightMap, params)
EngineInit ==
  \E dim \in Dimensions, name \in TerrainNames, p \in ParamSets :
    LET given == Terrain(name, dim[1], dim[2])
    IN /\ width = dim[1]
       /\ height = dim[2]
       /\ heightMap = Float32Copy(given)
       /\ params = p
       /\ poolDefined = FALSE
       /\ droplets = <<>>
       /\ dropletsActive = "undefined"
       /\ returned = "none"
       /\ cloned = NoGrid
       /\ lastReset = NoGrid
       /\ advances = <<>>
       /\ starts = 0
       /\ fedNegative = HasNegative(given)

\* array identities are not followed
NoCaller ==
  /\ heap = <<>>
  /\ thisHeightMap = 0
  /\ callerArrays = {}

NoQuery == <<>>

\* no query was made
NotAsked ==
  /\ query = NoQuery
  /\ answer = NoQuery

\* computeFlowMap is not called
NoFlow ==
  /\ flowPc = "none"
  /\ flowHeights = <<>>
  /\ downslope = <<>>
  /\ indices = <<>>
  /\ flowMap = <<>>
  /\ flowAt = 0

\* the generator is not called and Math.random is the built-in one
NoGen ==
  /\ mathRandom = 0
  /\ generated = <<>>

NoCall == <<>>

\* no smoothing call is made
NoSmoothing ==
  /\ surface = NoGrid
  /\ smoothed = NoCall

\* no terrain generation is followed
NoWorley == worleyRun = NoCall

\* none of the services around the engine is in use
\* no request is made to the terrain worker
NoProgress ==
  /\ scatterLayers = <<>>
  /\ terrainPc = "none"
  /\ posted = <<>>
  /\ received = 0

\* new ErosionWorkerService(): this.handlers = {}
NoHandlers == [initialized |-> 0, stepped |-> 0, reset |-> 0]

\* a Float32Array whose buffer was transferred: its length is 0
DetachedArray == [detached |-> TRUE, elements |-> NoGrid]

\* no erosion worker is made
NoWorker ==
  /\ original = DetachedArray
  /\ handlers = NoHandlers
  /\ promises = <<>>
  /\ toWorker = <<>>
  /\ toMain = <<>>
  /\ hmRef = NoGrid
  /\ erosionWorkerRef = FALSE
  /\ erosionRunning = FALSE
  /\ erosionProgress = -1
  /\ timers = 0
  /\ pauses = 0
  /\ stopAt = -1

NoServices == NoSmoothing /\ NoWorley /\ NoProgress /\ NoWorker

Init == EngineInit /\ NoCaller /\ NotAsked /\ NoFlow /\ NoGen /\ NoServices

\* _createDroplet() of an engine with the fields w, h and p: rx and ry are
\* the two values of Math.random()
CreateDropletOn(w, h, p, rx, ry) ==
  [x |-> Floor(rx * (w - 2) * PosScale, RandomDen) + PosScale,
   y |-> Floor(ry * (h - 2) * PosScale, RandomDen) + PosScale,
   dx |-> 0, dy |-> 0,
   speed |-> p.initialSpeed,
   water |-> p.initialVolume,
   sediment |-> 0,
   lifetime |-> 0,
   alive |-> TRUE]

\* _createDroplet()
CreateDroplet(rx, ry) == CreateDropletOn(width, height, params, rx, ry)

\* resetDroplets(numDroplets), with the values Math.random() returned
ResetDroplets(numDroplets, rnd) ==
  /\ droplets' = [i \in 1..numDroplets |-> CreateDroplet(rnd[i][1], rnd[i][2])]
  /\ poolDefined' = TRUE
  /\ dropletsActive' = "true"
  /\ advances' = [i \in 1..numDroplets |-> 0]

\* start(numDroplets, resetHeightmap, initialHeightMap); initialHeightMap = NoGrid is null
Start(numDroplets, resetHeightmap, initialHeightMap, rnd) ==
  /\ starts < MaxStarts
  /\ heightMap' = IF resetHeightmap /\ initialHeightMap # NoGrid
                  THEN Float32Copy(initialHeightMap) ELSE heightMap
  /\ ResetDroplets(numDroplets, rnd)
  /\ starts' = starts + 1
  /\ fedNegative' = (fedNegative \/ (resetHeightmap /\ HasNegative(initialHeightMap)))
  /\ returned' = "none"
  /\ cloned' = NoGrid
  /\ lastReset' = NoGrid
  /\ UNCHANGED <<width, height, params>>

\* stepDroplets(batchSize) with no onStep callback.  Before the first start()
\* this.droplets is undefined and reading its length throws.
StepDroplets(batchSize) ==
  IF ~poolDefined
  THEN /\ returned' = "throws"
       /\ cloned' = NoGrid
       /\ lastReset' = NoGrid
       /\ UNCHANGED <<width, height, heightMap, params, poolDefined, droplets,
                      dropletsActive, advances, starts, fedNegative>>
  ELSE \E r \in {StepLoop(1, 0, batchSize, droplets, heightMap, advances, width, height, params)} :
          /\ droplets' = r.droplets
          /\ heightMap' = r.heightMap
          /\ advances' = r.advances
          /\ returned' = IF AnyAlive(r.droplets) THEN "true" ELSE "false"
          /\ cloned' = NoGrid
          /\ lastReset' = NoGrid
          /\ UNCHANGED <<width, height, params, poolDefined, dropletsActive,
                         starts, fedNegative>>

\* variant: pause() also ends every droplet
PauseEndsDroplets ==
  /\ dropletsActive' = "false"
  /\ droplets' = [i \in 1..Len(droplets) |-> [droplets[i] EXCEPT !.alive = FALSE]]
  /\ returned' = "none"
  /\ cloned' = NoGrid
  /\ lastReset' = NoGrid
  /\ UNCHANGED <<width, height, heightMap, params, poolDefined,
                 advances, starts, fedNegative>>

\* pause()
Pause ==
  /\ dropletsActive' = "false"
  /\ returned' = "none"
  /\ cloned' = NoGrid
  /\ lastReset' = NoGrid
  /\ UNCHANGED <<width, height, heightMap, params, poolDefined, droplets,
                 advances, starts, fedNegative>>

\* resume()
Resume ==
  /\ dropletsActive' = "true"
  /\ returned' = "none"
  /\ cloned' = NoGrid
  /\ lastReset' = NoGrid
  /\ UNCHANGED <<width, height, heightMap, params, poolDefined, droplets,
                 advances, starts, fedNegative>>

\* cloneHeightMap()
CloneHeightMap ==
  /\ cloned' = Float32Copy(heightMap)
  /\ returned' = "none"
  /\ UNCHANGED <<width, height, heightMap, params, poolDefined, droplets, dropletsActive,
                 lastReset, advances, starts, fedNegative>>

\* variant: resetHeightMap(newHeightMap) also empties the pool
ResetHeightMapAndPool(newHeightMap) ==
  /\ heightMap' = Float32Copy(newHeightMap)
  /\ droplets' = <<>>
  /\ advances' = <<>>
  /\ fedNegative' = (fedNegative \/ HasNegative(newHeightMap))
  /\ returned' = "none"
  /\ cloned' = NoGrid
  /\ lastReset' = newHeightMap
  /\ UNCHANGED <<width, height, params, poolDefined, dropletsActive, starts>>

\* resetHeightMap(newHeightMap)
ResetHeightMap(newHeightMap) ==
  /\ heightMap' = Float32Copy(newHeightMap)
  /\ fedNegative' = (fedNegative \/ HasNegative(newHeightMap))
  /\ returned' = "none"
  /\ cloned' = NoGrid
  /\ lastReset' = newHeightMap
  /\ UNCHANGED <<width, height, params, poolDefined, droplets, dropletsActive,
                 advances, starts>>

\* the (resetHeightmap, initialHeightMap) pairs a caller passes to start
StartArgs == {<<FALSE, NoGrid>>, <<TRUE, Terrain("cliff", width, height)>>}

Next ==
  \/ /\ \E n \in 0..MaxDroplets, a \in StartArgs :
          \E rnd \in [1..n -> RandomValues \X RandomValues] : Start(n, a[1], a[2], rnd)
     /\ UNCHANGED restVars
  \/ /\ \E b \in 0..MaxBatch : StepDroplets(b)
     /\ UNCHANGED restVars
  \/ Pause /\ UNCHANGED restVars
  \/ Resume /\ UNCHANGED restVars
  \/ CloneHeightMap /\ UNCHANGED restVars
  \/ /\ \E g \in ResetGrids(width, height) : ResetHeightMap(g)
     /\ UNCHANGED restVars

Spec == Init /\ [][Next]_vars

\* ------------------------------------------------- droplets created anywhere
\*
\* Under EdgeSpec start() draws Math.random() from EdgeValues, so that droplets
\* are also created on the lower edge and beyond the upper edge of the region
\* stepDroplets lets a droplet survive in.

EdgeNext ==
  \/ /\ \E n \in 0..MaxDroplets :
          \E rnd \in [1..n -> EdgeValues \X EdgeValues] : Start(n, FALSE, NoGrid, rnd)
     /\ UNCHANGED restVars
  \/ /\ \E b \in 1..MaxBatch : StepDroplets(b)
     /\ UNCHANGED restVars

EdgeSpec == Init /\ [][EdgeNext]_vars

\* ------------------------------------------------------ queries anywhere
\*
\* Under QuerySpec _bilinearInterp and _calcGradient are asked at positions
\* inside, on the edges of and outside the grid of a constructed engine.

\* how far outside the grid a query goes, in cells
QueryMargin == 2

QueryRange(n) == (0 - QueryMargin * PosScale)..((n - 1 + QueryMargin) * PosScale)

\* this._bilinearInterp(heightMap, x, y) and this._calcGradient(heightMap, x, y)
Ask(x, y) ==
  /\ query' = <<x, y>>
  /\ answer' = [height |-> BilinearInterp(heightMap, width, height, x, y),
                grad |-> CalcGradient(heightMap, width, height, x, y)]
  /\ UNCHANGED besideQuery

QueryNext == \E x \in QueryRange(width), y \in QueryRange(height) : Ask(x, y)

QuerySpec == Init /\ [][QueryNext]_vars

\* ------------------------------------------------------ the arrays by identity
\*
\* The engine and its caller both hold references to Float32Arrays.  Under
\* CallerSpec every array has an identity, the engine's calls allocate where the
\* code says new Float32Array, stepDroplets writes the array this.heightMap
\* refers to in place, and the caller writes the arrays it holds.  heightMap
\* stays what it is under Spec: the elements of the array this.heightMap
\* refers to.

\* the number of arrays allocated in one run
MaxArrays == 4
\* the element and the value of a caller's write
WriteCell == 1
WriteValue == 9 * Quarter

\* variant: this.heightMap = heightMap, the reference is kept
SameFloat32Array(hp, src) == [heap |-> hp, ref |-> src]

\* new Float32Array(src) on the heap hp: a fresh array with src's elements
NewFloat32Array(hp, src) ==
  [heap |-> Append(hp, Float32Copy(hp[src])), ref |-> Len(hp) + 1]

\* the caller builds array 1 and constructs the engine from it
CallerInit ==
  /\ EngineInit
  /\ \E a \in {NewFloat32Array(<<heightMap>>, 1)} :
       /\ heap = a.heap
       /\ thisHeightMap = a.ref
  /\ callerArrays = {1}
  /\ NotAsked
  /\ NoFlow
  /\ NoGen
  /\ NoServices

\* start(numDroplets, resetHeightmap, initialHeightMap) with the caller's array src
CallerStart(numDroplets, resetHeightmap, src, rnd) ==
  /\ Start(numDroplets, resetHeightmap, heap[src], rnd)
  /\ IF resetHeightmap
     THEN /\ Len(heap) < MaxArrays
          /\ \E a \in {NewFloat32Array(heap, src)} :
               /\ heap' = a.heap
               /\ thisHeightMap' = a.ref
     ELSE UNCHANGED <<heap, thisHeightMap>>
  /\ UNCHANGED <<callerArrays, besideCaller>>

\* stepDroplets(batchSize, onStep): the loop writes this.heightMap in place; an
\* onStep callback is handed new Float32Array(heightMap) after the loop
CallerStep(batchSize, onStep) ==
  /\ StepDroplets(batchSize)
  /\ \E hp \in {[heap EXCEPT ![thisHeightMap] = heightMap']} :
       IF onStep /\ poolDefined
       THEN /\ Len(heap) < MaxArrays
            /\ \E a \in {NewFloat32Array(hp, thisHeightMap)} :
                 /\ heap' = a.heap
                 /\ callerArrays' = callerArrays \cup {a.ref}
       ELSE /\ heap' = hp
            /\ UNCHANGED callerArrays
  /\ UNCHANGED <<thisHeightMap, besideCaller>>

\* cloneHeightMap(), the result handed to the caller (the worker's 'stepped'
\* reply is stepDroplets followed by this)
CallerClone ==
  /\ Len(heap) < MaxArrays
  /\ CloneHeightMap
  /\ \E a \in {NewFloat32Array(heap, thisHeightMap)} :
       /\ heap' = a.heap
       /\ callerArrays' = callerArrays \cup {a.ref}
  /\ UNCHANGED <<thisHeightMap, besideCaller>>

\* resetHeightMap(newHeightMap) with the caller's array src
CallerReset(src) ==
  /\ Len(heap) < MaxArrays
  /\ ResetHeightMap(heap[src])
  /\ \E a \in {NewFloat32Array(heap, src)} :
       /\ heap' = a.heap
       /\ thisHeightMap' = a.ref
  /\ UNCHANGED <<callerArrays, besideCaller>>

\* the caller stores v in element c of an array it holds
CallerWrite(src, c, v) ==
  /\ heap[src][c] # v
  /\ heap' = [heap EXCEPT ![src][c] = v]
  /\ heightMap' = heap'[thisHeightMap]
  /\ UNCHANGED <<width, height, params, poolDefined, droplets, dropletsActive,
                 returned, cloned, lastReset, advances, starts, fedNegative>>
  /\ UNCHANGED <<thisHeightMap, callerArrays, besideCaller>>

CallerNext ==
  \/ \E reset \in BOOLEAN, src \in callerArrays :
       \E rnd \in [1..1 -> RandomValues \X RandomValues] : CallerStart(1, reset, src, rnd)
  \/ \E onStep \in BOOLEAN : CallerStep(1, onStep)
  \/ CallerClone
  \/ \E src \in callerArrays : CallerReset(src)
  \/ \E src \in callerArrays : CallerWrite(src, WriteCell, WriteValue)

CallerSpec == CallerInit /\ [][CallerNext]_vars

\* ------------------------------------- HeightfieldService: computeFlowMap
\*
\* computeFlowMap(heightMap, width, height) on grids of FlowWidth x FlowHeight
\* cells with heights 0..MaxFlowHeight.  A cell is its index idx = y * width + x
\* as in the code; the arrays are sequences, so cell idx is element idx + 1.

FlowWidth == 3
FlowHeight == 2
MaxFlowHeight == 2

FlowCells == 0..(FlowWidth * FlowHeight - 1)

\* no engine is constructed
NoEngine ==
  /\ width = 0
  /\ height = 0
  /\ heightMap = NoGrid
  /\ params = DefaultParams
  /\ poolDefined = FALSE
  /\ droplets = <<>>
  /\ dropletsActive = "undefined"
  /\ returned = "none"
  /\ cloned = NoGrid
  /\ lastReset = NoGrid
  /\ advances = <<>>
  /\ starts = 0
  /\ fedNegative = FALSE

\* variant: heightMap[nIdx] <= minZ
NotHigher(z, minZ) == z <= minZ

\* the test that makes a neighbour the new lowest: heightMap[nIdx] < minZ
Lower(z, minZ) == z < minZ

\* the neighbours in the order of the two loops, dy outside and dx inside,
\* as <<dx, dy>>
NeighbourScan ==
  <<<<-1, -1>>, <<0, -1>>, <<1, -1>>, <<-1, 0>>, <<0, 0>>, <<1, 0>>, <<-1, 1>>, <<0, 1>>, <<1, 1>>>>

\* the dy and dx loops of cell (x, y) from the k-th neighbour on, minZ and
\* minIdx being the lowest height and its cell so far: the value stored in
\* downslope[idx]
RECURSIVE ScanFrom(_, _, _, _, _, _, _, _)
ScanNeighbour(hm, w, h, x, y, k, minZ, minIdx, nx, ny) ==
  IF (nx = x /\ ny = y) \/ nx < 0 \/ nx >= w \/ ny < 0 \/ ny >= h
  THEN ScanFrom(hm, w, h, x, y, k + 1, minZ, minIdx)
  ELSE IF Lower(hm[ny * w + nx + 1], minZ)
       THEN ScanFrom(hm, w, h, x, y, k + 1, hm[ny * w + nx + 1], ny * w + nx)
       ELSE ScanFrom(hm, w, h, x, y, k + 1, minZ, minIdx)

ScanFrom(hm, w, h, x, y, k, minZ, minIdx) ==
  IF k > Len(NeighbourScan) THEN minIdx
  ELSE ScanNeighbour(hm, w, h, x, y, k, minZ, minIdx,
                     x + NeighbourScan[k][1], y + NeighbourScan[k][2])

\* the downslope array after the loops over y and x
Downslope(hm, w, h) ==
  [i \in 1..(w * h) |->
     ScanFrom(hm, w, h, (i - 1) % w, (i - 1) \div w, 1, hm[i], i - 1)]

\* the number of cells that indices.sort((a, b) => heightMap[a] - heightMap[b])
\* puts before cell idx: the lower ones, and of the equally high ones those
\* that came before it (the sort is stable)
SortedBefore(hm, idx) ==
  Cardinality({j \in 0..(Len(hm) - 1) :
                 hm[j + 1] < hm[idx + 1] \/ (hm[j + 1] = hm[idx + 1] /\ j < idx)})

\* indices after the sort
SortedIndices(hm) ==
  [k \in 1..Len(hm) |-> CHOOSE idx \in 0..(Len(hm) - 1) : SortedBefore(hm, idx) = k - 1]

\* a call computeFlowMap(heightMap, FlowWidth, FlowHeight)
FlowInit ==
  /\ NoEngine /\ NoCaller /\ NotAsked /\ NoGen /\ NoServices
  /\ flowPc = "called"
  /\ flowHeights \in [1..(FlowWidth * FlowHeight) -> 0..MaxFlowHeight]
  /\ downslope = <<>>
  /\ indices = <<>>
  /\ flowMap = <<>>
  /\ flowAt = 0

\* the body up to the accumulation loop: flowMap is filled with 1, downslope
\* is computed and indices is sorted by height
Route ==
  /\ flowPc = "called"
  /\ flowMap' = [i \in 1..(FlowWidth * FlowHeight) |-> 1]
  /\ downslope' = Downslope(flowHeights, FlowWidth, FlowHeight)
  /\ indices' = SortedIndices(flowHeights)
  /\ flowPc' = "accumulate"
  /\ UNCHANGED <<flowHeights, flowAt>>
  /\ UNCHANGED besideFlow

\* one turn of for (const idx of indices): if (ds !== idx) flowMap[ds] += flowMap[idx]
Accumulate ==
  /\ flowPc = "accumulate"
  /\ flowAt < Len(indices)
  /\ \E idx \in {indices[flowAt + 1]} :
       flowMap' = IF downslope[idx + 1] # idx
                  THEN [flowMap EXCEPT ![downslope[idx + 1] + 1] = @ + flowMap[idx + 1]]
                  ELSE flowMap
  /\ flowAt' = flowAt + 1
  /\ UNCHANGED <<flowPc, flowHeights, downslope, indices>>
  /\ UNCHANGED besideFlow

\* return flowMap
FlowReturn ==
  /\ flowPc = "accumulate"
  /\ flowAt = Len(indices)
  /\ flowPc' = "returned"
  /\ UNCHANGED <<flowHeights, downslope, indices, flowMap, flowAt>>
  /\ UNCHANGED besideFlow

FlowNext == Route \/ Accumulate \/ FlowReturn

FlowSpec == FlowInit /\ [][FlowNext]_vars

\* ------------------- HeightmapGenerationService: generateTerrainInternal
\*
\* The generator with the engine's start() and setSeed() beside it, the calls
\* that use and replace the global Math.random.  The noise libraries (alea,
\* noisejs, worley-noise) are functions of the seed they are constructed
\* with and of their arguments; their values stand as small integers, a
\* height being the integer height * 100.

\* the number of generateTerrainInternal calls in one run
MaxCalls == 2
\* the seeds of GenerationParams and of setSeed
Seeds == {1, 2}
\* meshResolution: a grid of 3 x 3 points, and the resolutions -1 and -2 that
\* make gridWidth = meshResolution + 1 zero and negative
MeshResolutions == {2, -1, -2}

\* the params generateTerrainInternal is called with; what is left out is
\* taken from defaultParams (worleySeed 0, smoothIterations 1, smoothFactor 0.5)
GenerationParams ==
  [seed : Seeds, meshResolution : MeshResolutions, applySmoothing : BOOLEAN]

\* variant: the generator draws from the global Math.random
MathRandomDraw(seed, k) == (mathRandom * 7 + k * 5 + 3) % 16

\* the k-th value of the generator Alea(seed)
Alea(seed, k) == (seed * 7 + k * 5 + 3) % 16

\* h of cell (ix, iy) after the octave loop: the sum over the octaves of the
\* ridged simplex, perlin and worley values at the warped position, from
\* new Noise(Alea(seed)()) and the worley points of Alea(worleySeedActual)
OctaveSum(seed, worleySeedActual, ix, iy) ==
  (((Alea(seed, 1) * 3 + Alea(worleySeedActual, 1) + Alea(worleySeedActual, 2)
     + ix * 5 + iy * 11) % 16) - 8) * 100

\* heightmapArray and the z of vertexPositionsForSmoothing after the loops over
\* iy and ix; a Float32Array of gridWidth * gridHeight zeros when the loops
\* do not run
RawHeights(seed, gridWidth, gridHeight) ==
  [i \in 1..(gridWidth * gridHeight) |->
     IF gridWidth > 0
     THEN OctaveSum(seed, seed, (i - 1) % gridWidth, (i - 1) \div gridWidth)
     ELSE 0]

\* edge blending: z *= edgeDist / margin where edgeDist < margin = 1
EdgeBlend(z, gridWidth, gridHeight) ==
  [i \in 1..Len(z) |->
     IF gridWidth > 0
        /\ Min(Min((i - 1) % gridWidth, gridWidth - 1 - ((i - 1) % gridWidth)),
               Min((i - 1) \div gridWidth, gridHeight - 1 - (i - 1) \div gridWidth)) < 1
     THEN z[i] * Min(Min((i - 1) % gridWidth, gridWidth - 1 - ((i - 1) % gridWidth)),
                     Min((i - 1) \div gridWidth, gridHeight - 1 - (i - 1) \div gridWidth))
     ELSE z[i]]

\* the cells of smoothKernel that are in the grid around cell (x, y), each
\* with twice its weight: 1 for a diagonal and 2 for a straight neighbour
KernelAt(x, y, mapWidth, mapHeight) ==
  {c \in ((x - 1)..(x + 1)) \X ((y - 1)..(y + 1)) \X {1, 2} :
     /\ <<c[1], c[2]>> # <<x, y>>
     /\ c[1] >= 0 /\ c[1] < mapWidth /\ c[2] >= 0 /\ c[2] < mapHeight
     /\ c[3] = (IF c[1] # x /\ c[2] # y THEN 1 ELSE 2)}

\* the sum of f over the finite set S
RECURSIVE SumOver(_, _, _, _)
SumOver(S, z, mapWidth, weighted) ==
  IF S = {} THEN 0
  ELSE LET c == CHOOSE c \in S : TRUE
       IN (IF weighted THEN z[c[2] * mapWidth + c[1] + 1] * c[3] ELSE c[3])
          + SumOver(S \ {c}, z, mapWidth, weighted)

\* lerp(currentPassZ[i], avg, factor), avg being the weighted sum over the
\* cell (weight self) and its neighbours, divided by the sum of the weights
SmoothedCell(z, zi, kernel, mapWidth, self, factor) ==
  zi + Trunc((Trunc(2 * self * zi + SumOver(kernel, z, mapWidth, TRUE),
                    2 * self + SumOver(kernel, z, mapWidth, FALSE)) - zi) * factor, Scale)

\* one pass of the loop over iter: every cell is computed from the heights z
\* the pass started with (currentPassZ).  With mapWidth < 0 the single cell
\* has x = 0, y = 0 and no neighbour in the grid.
SmoothPass(z, mapWidth, mapHeight, self, factor) ==
  [i \in 1..Len(z) |->
     IF mapWidth > 0
     THEN SmoothedCell(z, z[i],
                       KernelAt((i - 1) % mapWidth, (i - 1) \div mapWidth, mapWidth, mapHeight),
                       mapWidth, self, factor)
     ELSE z[i]]

\* for (let iter = 0; iter < iterations; iter++): the heights after the
\* passes iter, iter + 1, ..., iterations - 1
RECURSIVE SmoothPasses(_, _, _, _, _, _, _)
SmoothPasses(z, mapWidth, mapHeight, self, factor, iter, iterations) ==
  IF iter < iterations
  THEN SmoothPasses(SmoothPass(z, mapWidth, mapHeight, self, factor),
                    mapWidth, mapHeight, self, factor, iter + 1, iterations)
  ELSE z

\* a || b for numbers: b when a is 0
OrDefault(a, b) == IF a # 0 THEN a ELSE b

\* defaultParams.smoothIterations and defaultParams.smoothFactor
DefaultSmoothing == [smoothIterations |-> 1, smoothFactor |-> Scale \div 2]

\* applySmoothingInternal(vertexPositions, mapWidth, mapHeight, smoothingParams):
\* the cell has weight 1 in its average
ApplySmoothingInternal(z, mapWidth, mapHeight, smoothingParams) ==
  SmoothPasses(z, mapWidth, mapHeight, 1,
               OrDefault(smoothingParams.smoothFactor, DefaultSmoothing.smoothFactor),
               0, OrDefault(smoothingParams.smoothIterations, DefaultSmoothing.smoothIterations))

\* the result from the blended heights on; the params that leave the
\* smoothing fields out take them from defaultParams
Smoothed(z, gridWidth, gridHeight, applySmoothing) ==
  [heightmap |-> IF applySmoothing
                 THEN ApplySmoothingInternal(z, gridWidth, gridHeight, DefaultSmoothing)
                 ELSE z,
   width |-> gridWidth,
   height |-> gridHeight]

\* generateTerrainInternal(params): { heightmap, width, height }
GenerateTerrainInternal(p) ==
  Smoothed(EdgeBlend(RawHeights(p.seed, p.meshResolution + 1, p.meshResolution + 1),
                     p.meshResolution + 1, p.meshResolution + 1),
           p.meshResolution + 1, p.meshResolution + 1, p.applySmoothing)

\* a call generateTerrainInternal(p); every exit of the function is its
\* return (the one throw is caught inside)
Generate(p) ==
  /\ Len(generated) < MaxCalls
  /\ generated' = Append(generated, [params |-> p, outcome |-> "returns",
                                     returned |-> GenerateTerrainInternal(p),
                                     mathRandom |-> mathRandom, starts |-> starts])
  /\ UNCHANGED <<engineVars, mathRandom>>
  /\ UNCHANGED besideGen

\* ErosionSimulator.setSeed(seed): s = seed % 2147483647, made positive, is
\* the variable of the function that replaces Math.random
SetSeed(seed) ==
  /\ mathRandom' = (IF (seed % 2147483647) <= 0 THEN (seed % 2147483647) + 2147483646
                    ELSE seed % 2147483647)
  /\ UNCHANGED <<engineVars, generated>>
  /\ UNCHANGED besideGen

\* s * 16807 % 2147483647, the product computed in parts that fit 32 bits
\* (16807 * 127773 + 2836 = 2147483647)
Lcg(s) ==
  IF 16807 * (s % 127773) - 2836 * (s \div 127773) > 0
  THEN 16807 * (s % 127773) - 2836 * (s \div 127773)
  ELSE (16807 * (s % 127773) - 2836 * (s \div 127773)) + 2147483647

\* the value s / 2147483647 the installed Math.random returns, as a numerator
\* over RandomDen
LcgValue(s) == s \div (2147483647 \div RandomDen + 1)

\* start(numDroplets) of an engine that draws its positions from Math.random
GenStart(numDroplets) ==
  /\ numDroplets <= 1
  /\ IF mathRandom = 0
     THEN /\ \E rnd \in [1..numDroplets -> RandomValues \X RandomValues] :
               Start(numDroplets, FALSE, NoGrid, rnd)
          /\ UNCHANGED mathRandom
     ELSE /\ Start(numDroplets, FALSE, NoGrid,
                   [i \in 1..numDroplets |->
                      <<LcgValue(Lcg(mathRandom)), LcgValue(Lcg(Lcg(mathRandom)))>>])
          /\ mathRandom' = IF numDroplets = 1 THEN Lcg(Lcg(mathRandom)) ELSE mathRandom
  /\ UNCHANGED generated
  /\ UNCHANGED besideGen

GenNext ==
  \/ \E p \in GenerationParams : Generate(p)
  \/ \E seed \in Seeds : SetSeed(seed)
  \/ \E n \in 0..1 : GenStart(n)

GenSpec == Init /\ [][GenNext]_vars

\* ------------------------------------- the engine given arrays of any length

\* the arrays a caller hands to resetHeightMap: the grids of the engine's own
\* dimensions, and the grid of a map one row taller
AnyArrays(w, h) == ResetGrids(w, h) \cup {Terrain("cliff", w, h + 1)}

AnyArrayNext ==
  \/ /\ \E n \in 0..MaxDroplets, a \in StartArgs :
          \E rnd \in [1..n -> RandomValues \X RandomValues] : Start(n, a[1], a[2], rnd)
     /\ UNCHANGED restVars
  \/ /\ \E b \in 1..MaxBatch : StepDroplets(b)
     /\ UNCHANGED restVars
  \/ CloneHeightMap /\ UNCHANGED restVars
  \/ /\ \E g \in AnyArrays(width, height) : ResetHeightMap(g)
     /\ UNCHANGED restVars

AnyArraySpec == Init /\ [][AnyArrayNext]_vars

\* ------------------------------------------------- the smoothing post-pass
\*
\* applySmoothingInternal of HeightmapGenerationService and applySmoothing of
\* TerrainGeneratorService, each called on its own on a grid of 3 x 3 heights.

SmoothWidth == 3
SmoothHeight == 3
MaxIterations == 3

\* the heights smoothing is called on: the generator's, before and after the
\* edge blend
Surfaces ==
  {RawHeights(s, SmoothWidth, SmoothHeight) : s \in Seeds}
  \cup {EdgeBlend(RawHeights(s, SmoothWidth, SmoothHeight), SmoothWidth, SmoothHeight) :
          s \in Seeds}

\* smoothIterations and smoothFactor as the parameter controls set them:
\* 0 .. 10 passes, a strength of 0 .. 1
SmoothingParams ==
  [smoothIterations : 0..MaxIterations,
   smoothFactor : {0, Scale \div 4, Scale \div 2, Scale}]

\* applySmoothing(positions, width, height, params) of TerrainGeneratorService:
\* the cell has weight kernelWeight = 6 in its average, and every pass writes
\* tempPositions from positions, which is replaced after the pass
ApplySmoothing(z, mapWidth, mapHeight, smoothingParams) ==
  SmoothPasses(z, mapWidth, mapHeight, 6, smoothingParams.smoothFactor,
               0, smoothingParams.smoothIterations)

SmoothInit ==
  /\ NoEngine /\ NoCaller /\ NotAsked /\ NoFlow /\ NoGen /\ NoWorley /\ NoProgress
  /\ NoWorker
  /\ surface \in Surfaces
  /\ smoothed = NoCall

\* a call applySmoothingInternal(surface, 3, 3, sp)
SmoothInternal(sp) ==
  /\ smoothed' = [service |-> "HeightmapGenerationService", params |-> sp,
                  z |-> ApplySmoothingInternal(surface, SmoothWidth, SmoothHeight, sp)]
  /\ UNCHANGED surface
  /\ UNCHANGED besideSmooth

\* a call applySmoothing(surface, 3, 3, sp)
SmoothGeometry(sp) ==
  /\ smoothed' = [service |-> "TerrainGeneratorService", params |-> sp,
                  z |-> ApplySmoothing(surface, SmoothWidth, SmoothHeight, sp)]
  /\ UNCHANGED surface
  /\ UNCHANGED besideSmooth

SmoothNext ==
  \/ \E sp \in SmoothingParams : SmoothInternal(sp)
  \/ \E sp \in SmoothingParams : SmoothGeometry(sp)

SmoothSpec == SmoothInit /\ [][SmoothNext]_vars

\* ------------------------------------- the generator's cellular-noise backend
\*
\* generateTerrainInternal of HeightmapGenerationService and generateTerrain of
\* TerrainGeneratorService from the worley points on.  What the worley-noise
\* library does when it is constructed and given the points is not decided
\* by this program: it is "ready", it "throws", or it is left "empty" (no
\* points property, or one of length 0).

\* the least and the greatest number of worley points (128 and 4096 in the
\* code), scaled down
MinPoints == 2
MaxPoints == 4
\* the distance to the nearest of no points: Infinity
Infinity == 1000000

Backends == {"ready", "throws", "empty"}
Generators == {"HeightmapGenerationService", "TerrainGeneratorService"}

\* the params of a generation, the defaults merged in
WorleyParams ==
  [seed : Seeds, worleySeed : {0, 3}, worleyPoints : {1, 3, 9}, meshResolution : {2, 3}]

\* Math.max(128, Math.min(4096, Math.floor(worleyPoints))); generateTerrain
\* takes meshResolution * 2 for a worleyPoints of 0
NumWorleyPoints(p, generator) ==
  Max(MinPoints, Min(MaxPoints, IF generator = "TerrainGeneratorService"
                                THEN OrDefault(p.worleyPoints, p.meshResolution * 2)
                                ELSE p.worleyPoints))

\* worleySeed !== 0 ? worleySeed : seed (params.worleySeed || params.seed in
\* generateTerrain), the same expression in the try and in the catch block
WorleySeedActual(p) == IF p.worleySeed # 0 THEN p.worleySeed ELSE p.seed

\* createWorleyPointsInternal(count, seed): count points of Alea(seed), the
\* coordinates in sixteenths
CreateWorleyPointsInternal(count, seed) ==
  [i \in 1..count |-> [x |-> Alea(seed, 2 * i - 1), y |-> Alea(seed, 2 * i)]]

\* variant: the catch block rethrows
Rethrown(points) == [kind |-> "none", points |-> <<>>]

\* the catch block: an object with the points and a brute-force getEuclidean
FallbackWorley(points) == [kind |-> "fallback", points |-> points]

\* the try block followed by the catch block: the library's object when it
\* is ready, with the points added to it; else the fallback over points
\* created again from the same count and seed
WorleyInstance(backend, p, generator) ==
  IF backend = "ready"
  THEN [kind |-> "library",
        points |-> CreateWorleyPointsInternal(NumWorleyPoints(p, generator), WorleySeedActual(p))]
  ELSE FallbackWorley(CreateWorleyPointsInternal(NumWorleyPoints(p, generator),
                                                 WorleySeedActual(p)))

\* getEuclidean({x, y}, 1): the distance from (x, y) to the nearest point
GetEuclidean(points, x, y) ==
  IF Len(points) = 0 THEN Infinity
  ELSE CHOOSE d \in {Sqrt((x - points[i].x) * (x - points[i].x)
                          + (y - points[i].y) * (y - points[i].y)) : i \in 1..Len(points)} :
         \A i \in 1..Len(points) :
           d <= Sqrt((x - points[i].x) * (x - points[i].x)
                     + (y - points[i].y) * (y - points[i].y))

\* h of cell (ix, iy) with the worley value read from the noise object at the
\* cell's normalised position
OctaveSumWith(seed, points, ix, iy, gridWidth, gridHeight) ==
  (((Alea(seed, 1) * 3
     + GetEuclidean(points, (16 * ix) \div (gridWidth - 1), (16 * iy) \div (gridHeight - 1))
     + ix * 5 + iy * 11) % 16) - 8) * 100

\* the heights after the loops over iy and ix and the edge blend
HeightsWith(seed, points, gridWidth, gridHeight) ==
  EdgeBlend([i \in 1..(gridWidth * gridHeight) |->
               OctaveSumWith(seed, points, (i - 1) % gridWidth, (i - 1) \div gridWidth,
                             gridWidth, gridHeight)],
            gridWidth, gridHeight)

\* the call from the noise object on: an error nothing catches ends it
GeneratedWith(p, instance) ==
  IF instance.kind = "none"
  THEN [outcome |-> "throws", heightmap |-> NoGrid]
  ELSE [outcome |-> "returns",
        heightmap |-> HeightsWith(p.seed, instance.points,
                                  p.meshResolution + 1, p.meshResolution + 1)]

WorleyInit ==
  /\ NoEngine /\ NoCaller /\ NotAsked /\ NoFlow /\ NoGen /\ NoSmoothing /\ NoProgress
  /\ NoWorker
  /\ worleyRun = NoCall

\* a generation with params p by the function of generator, the library
\* behaving as backend says
GenerateWith(p, generator, backend) ==
  /\ \E instance \in {WorleyInstance(backend, p, generator)} :
       worleyRun' = [generator |-> generator, params |-> p, backend |-> backend,
                     worley |-> instance, result |-> GeneratedWith(p, instance)]
  /\ UNCHANGED besideWorley

WorleyNext ==
  \E p \in WorleyParams, generator \in Generators, backend \in Backends :
    GenerateWith(p, generator, backend)

WorleySpec == WorleyInit /\ [][WorleyNext]_vars

\* ------------------------------------------------------- the terrain worker
\*
\* One 'generate' request of TerrainWorkerService.generate: the worker's
\* onmessage runs to its end and posts its messages, and the service's
\* onmessage handles them one by one.

MaxLayers == 4

\* the enabled flags of the scatter layers of a request
LayerLists == UNION {[1..n -> BOOLEAN] : n \in 0..MaxLayers}

\* scatterLayers.filter(l => l.enabled).length
EnabledCount(ls) == Cardinality({j \in 1..Len(ls) : ls[j]})

\* 0.4 + 0.6 * ((i + 1) / enabledCount), i being the index of the layer in
\* scatterLayers (counted from 0)
LayerProgress(i, enabledCount) ==
  (2 * Scale) \div 5 + (3 * Scale * (i + 1)) \div (5 * enabledCount)

\* the loop over scatterLayers from index i on (counted from 0): a layer that
\* is not enabled is skipped, an enabled one is scattered and reported
RECURSIVE ScatterLoop(_, _, _)
ScatterLoop(ls, i, msgs) ==
  IF i < Len(ls)
  THEN ScatterLoop(ls, i + 1,
                   IF ls[i + 1]
                   THEN Append(msgs, [type |-> "progress",
                                      progress |-> LayerProgress(i, EnabledCount(ls))])
                   ELSE msgs)
  ELSE msgs

ProgressInit ==
  /\ NoEngine /\ NoCaller /\ NotAsked /\ NoFlow /\ NoGen /\ NoSmoothing /\ NoWorley
  /\ NoWorker
  /\ scatterLayers \in LayerLists
  /\ terrainPc = "requested"
  /\ posted = <<>>
  /\ received = 0

\* self.onmessage of the worker for action 'generate': the geometry is built
\* and reported with progress 0.4, the layers are scattered, and 'done' is posted
TerrainGenerate ==
  /\ terrainPc = "requested"
  /\ posted' = Append(ScatterLoop(scatterLayers, 0,
                                  <<[type |-> "progress", progress |-> (2 * Scale) \div 5]>>),
                      [type |-> "done", progress |-> 0])
  /\ terrainPc' = "ran"
  /\ UNCHANGED <<scatterLayers, received>>
  /\ UNCHANGED besideProgress

\* worker.onmessage of TerrainWorkerService for the next message: a progress
\* goes to handlers.progress, a done to handlers.done
TerrainReceive ==
  /\ received < Len(posted)
  /\ received' = received + 1
  /\ UNCHANGED <<scatterLayers, terrainPc, posted>>
  /\ UNCHANGED besideProgress

ProgressNext == TerrainGenerate \/ TerrainReceive

ProgressSpec == ProgressInit /\ [][ProgressNext]_vars

\* ------------------------- the erosion worker, its service and the driver
\*
\* The main thread and the worker each handle one message or event at a time,
\* to its end: an action is one onmessage, one event handler or one timer
\* callback, together with the promise callbacks it releases.  Messages are
\* delivered in the order they were posted.  The engine's variables are the
\* worker's simulator; width = 0 stands for simulator = null.

\* the step calls a client of the service makes
MaxSteps == 3
\* erosionDroplets and erosionBatchSize of the driver
ErosionDroplets == 2
ErosionBatchSize == 1

\* the state of the service that a call changes
Service == [handlers |-> handlers, promises |-> promises, toWorker |-> toWorker,
            original |-> original]

Becomes(svc) ==
  /\ handlers' = svc.handlers
  /\ promises' = svc.promises
  /\ toWorker' = svc.toWorker
  /\ original' = svc.original

\* new Promise(...) of a call of the given kind, with what the caller chains
\* to it
NewPromise(kind, then) == [kind |-> kind, state |-> "pending", reply |-> 0, then |-> then]

\* the promise of a call whose executor threw
Rejected(kind, then) == [NewPromise(kind, then) EXCEPT !.state = "rejected"]

\* the executor of init, step and reset: the handler for the reply's type is
\* set, then the message is posted.  Posting a message that transfers a buffer
\* that is detached already throws a DataCloneError, which rejects the promise;
\* a transfer detaches the caller's array.
Call(svc, kind, type, then, message, transfers) ==
  IF transfers /\ svc.original.detached
  THEN [svc EXCEPT !.handlers[type] = Len(svc.promises) + 1,
                   !.promises = Append(@, Rejected(kind, then))]
  ELSE [svc EXCEPT !.handlers[type] = Len(svc.promises) + 1,
                   !.promises = Append(@, NewPromise(kind, then)),
                   !.toWorker = Append(@, [message EXCEPT !.req = Len(svc.promises) + 1]),
                   !.original = IF transfers THEN DetachedArray ELSE @]

\* init(width, height, heightMap, params, numDroplets), heightMap being the
\* caller's original
ServiceInit(svc, w, h, p, numDroplets, then) ==
  Call(svc, "init", "initialized", then,
       [action |-> "init", req |-> 0, width |-> w, height |-> h,
        heightMap |-> svc.original.elements, params |-> p, numDroplets |-> numDroplets],
       TRUE)

\* step(batchSize)
ServiceStep(svc, batchSize, then) ==
  Call(svc, "step", "stepped", then, [action |-> "step", req |-> 0, batchSize |-> batchSize],
       FALSE)

\* reset(initialHeightMap), initialHeightMap being the caller's original
ServiceReset(svc, then) ==
  Call(svc, "reset", "reset", then,
       [action |-> "reset", req |-> 0, heightMap |-> svc.original.elements], TRUE)

\* pause()
ServicePause(svc) ==
  [svc EXCEPT !.toWorker = Append(@, [action |-> "pause", req |-> 0])]

\* the calls of the given kind made so far
Calls(kind) == Cardinality({i \in 1..Len(promises) : promises[i].kind = kind})

\* the driver's state
driverVars == <<hmRef, erosionWorkerRef, erosionRunning, erosionProgress, timers, stopAt>>

\* heightMapRef.current.original is a generated map; no worker is made yet
WorkerInit ==
  /\ NoEngine /\ NoCaller /\ NotAsked /\ NoFlow /\ NoGen
  /\ NoSmoothing /\ NoWorley /\ NoProgress
  /\ original = [detached |-> FALSE, elements |-> Terrain("cliff", 5, 4)]
  /\ handlers = NoHandlers
  /\ promises = <<>>
  /\ toWorker = <<>>
  /\ toMain = <<>>
  /\ hmRef = Terrain("cliff", 5, 4)
  /\ erosionWorkerRef = FALSE
  /\ erosionRunning = FALSE
  /\ erosionProgress = -1
  /\ timers = 0
  /\ pauses = 0
  /\ stopAt = -1

\* self.onmessage of the worker, case 'init': the simulator is constructed
\* from the heightMap of the message and started
WorkerInitialize(msg, rnd) ==
  /\ width' = msg.width
  /\ height' = msg.height
  /\ heightMap' = Float32Copy(msg.heightMap)
  /\ params' = msg.params
  /\ droplets' = [i \in 1..msg.numDroplets |->
                    CreateDropletOn(msg.width, msg.height, msg.params, rnd[i][1], rnd[i][2])]
  /\ poolDefined' = TRUE
  /\ dropletsActive' = "true"
  /\ advances' = [i \in 1..msg.numDroplets |-> 0]
  /\ starts' = starts + 1
  /\ fedNegative' = HasNegative(msg.heightMap)
  /\ returned' = "none"
  /\ cloned' = NoGrid
  /\ lastReset' = NoGrid
  /\ toMain' = Append(toMain, [type |-> "initialized", req |-> msg.req])

\* case 'step': stepDroplets(batchSize), cloneHeightMap(), and the clone is
\* posted with what stepDroplets returned
WorkerStepped(msg, r) ==
  /\ droplets' = r.droplets
  /\ heightMap' = r.heightMap
  /\ advances' = r.advances
  /\ returned' = IF AnyAlive(r.droplets) THEN "true" ELSE "false"
  /\ cloned' = Float32Copy(r.heightMap)
  /\ lastReset' = NoGrid
  /\ UNCHANGED <<width, height, params, poolDefined, dropletsActive, starts, fedNegative>>
  /\ toMain' = Append(toMain, [type |-> "stepped", req |-> msg.req,
                               alive |-> IF AnyAlive(r.droplets) THEN "true" ELSE "false",
                               heightMap |-> Float32Copy(r.heightMap)])

\* self.onmessage of the worker for the oldest message.  A message that finds
\* simulator = null throws in the worker and is not answered.
WorkerOnMessage ==
  /\ toWorker # <<>>
  /\ toWorker' = Tail(toWorker)
  /\ LET msg == Head(toWorker)
     IN IF msg.action = "init"
        THEN \E rnd \in [1..msg.numDroplets -> RandomValues \X RandomValues] :
               WorkerInitialize(msg, rnd)
        ELSE IF width = 0
        THEN UNCHANGED <<engineVars, toMain>>
        ELSE IF msg.action = "step"
        THEN WorkerStepped(msg, StepLoop(1, 0, msg.batchSize, droplets, heightMap, advances,
                                         width, height, params))
        ELSE IF msg.action = "pause"
        THEN Pause /\ toMain' = Append(toMain, [type |-> "paused", req |-> 0])
        ELSE ResetHeightMap(msg.heightMap)
             /\ toMain' = Append(toMain, [type |-> "reset", req |-> msg.req])
  /\ UNCHANGED <<original, handlers, promises, driverVars, pauses>>
  /\ UNCHANGED besideWorker

\* this.handlers[type], undefined for a type no call sets a handler for
HandlerOf(hs, type) == IF type \in DOMAIN hs THEN hs[type] ELSE 0

\* resolve(data): the promise is settled with the reply
Resolved(promise, msg) ==
  IF promise.state = "pending"
  THEN [promise EXCEPT !.state = "resolved", !.reply = msg.req]
  ELSE promise

\* the service after its handler for msg ran: the handler is removed and its
\* promise resolved
Handled(svc, msg, pid) ==
  [svc EXCEPT !.handlers[msg.type] = 0, !.promises[pid] = Resolved(@, msg)]

\* what the driver chained to the promise, run with the reply msg: the then
\* of init calls runBatch, which calls step; the then in runBatch takes the
\* heights and the progress and sets a timer for runBatch while alive is
\* truthy; the then of reset restores the driver's heights
Then(then, svc, msg) ==
  IF then = "runBatch"
  THEN Becomes(ServiceStep(svc, ErosionBatchSize, "batch")) /\ UNCHANGED driverVars
  ELSE IF then = "batch"
  THEN /\ Becomes(svc)
       /\ hmRef' = msg.heightMap
       /\ erosionProgress' = ErosionDroplets - (IF msg.alive = "true" THEN 1 ELSE 0)
       /\ timers' = IF msg.alive = "true" THEN timers + 1 ELSE timers
       /\ erosionRunning' = IF msg.alive = "true" THEN erosionRunning ELSE FALSE
       /\ UNCHANGED <<erosionWorkerRef, stopAt>>
  ELSE IF then = "restore"
  THEN /\ Becomes(svc)
       /\ hmRef' = svc.original.elements
       /\ erosionRunning' = FALSE
       /\ erosionProgress' = -1
       /\ UNCHANGED <<erosionWorkerRef, timers, stopAt>>
  ELSE Becomes(svc) /\ UNCHANGED driverVars

\* worker.onmessage of ErosionWorkerService for the oldest message: the
\* handler set for its type, if any, is called
MainOnMessage ==
  /\ toMain # <<>>
  /\ toMain' = Tail(toMain)
  /\ LET msg == Head(toMain)
         pid == HandlerOf(handlers, msg.type)
     IN IF pid = 0
        THEN UNCHANGED <<original, handlers, promises, toWorker, driverVars>>
        ELSE Then(promises[pid].then, Handled(Service, msg, pid), msg)
  /\ UNCHANGED <<engineVars, pauses>>
  /\ UNCHANGED besideWorker

\* a client of the service calls init with its original array
ClientInit(p) ==
  /\ Calls("init") = 0
  /\ Becomes(ServiceInit(Service, 5, 4, p, 1, "none"))
  /\ UNCHANGED <<engineVars, toMain, driverVars, pauses>>
  /\ UNCHANGED besideWorker

\* a client calls step
ClientStep ==
  /\ Calls("init") = 1
  /\ Calls("step") < MaxSteps
  /\ Becomes(ServiceStep(Service, 1, "none"))
  /\ UNCHANGED <<engineVars, toMain, driverVars, pauses>>
  /\ UNCHANGED besideWorker

\* a client calls pause
ClientPause ==
  /\ Calls("init") = 1
  /\ pauses = 0
  /\ Becomes(ServicePause(Service))
  /\ pauses' = 1
  /\ UNCHANGED <<engineVars, toMain, driverVars>>
  /\ UNCHANGED besideWorker

\* a client calls reset with its original array
ClientReset ==
  /\ Calls("init") = 1
  /\ Calls("reset") = 0
  /\ Becomes(ServiceReset(Service, "none"))
  /\ UNCHANGED <<engineVars, toMain, driverVars, pauses>>
  /\ UNCHANGED besideWorker

ServiceNext ==
  \/ \E p \in ParamSets : ClientInit(p)
  \/ ClientStep
  \/ ClientPause
  \/ ClientReset
  \/ WorkerOnMessage
  \/ MainOnMessage

ServiceSpec == WorkerInit /\ [][ServiceNext]_vars

\* handleStartErosion, for the first run: a worker is made and init is called
\* with heightMapRef.current.original
HandleStartErosion(p) ==
  /\ ~erosionWorkerRef
  /\ erosionWorkerRef' = TRUE
  /\ erosionRunning' = TRUE
  /\ erosionProgress' = 0
  /\ Becomes(ServiceInit(Service, 5, 4, p, ErosionDroplets, "runBatch"))
  /\ UNCHANGED <<engineVars, toMain, hmRef, timers, pauses, stopAt>>
  /\ UNCHANGED besideWorker

\* handleStopErosion, once
HandleStopErosion ==
  /\ pauses = 0
  /\ IF erosionWorkerRef THEN Becomes(ServicePause(Service))
     ELSE UNCHANGED <<original, handlers, promises, toWorker>>
  /\ pauses' = 1
  /\ stopAt' = Calls("step")
  /\ erosionRunning' = FALSE
  /\ UNCHANGED <<engineVars, toMain, hmRef, erosionWorkerRef, erosionProgress, timers>>
  /\ UNCHANGED besideWorker

\* handleResetErosion, once
HandleResetErosion ==
  /\ Calls("reset") = 0
  /\ erosionWorkerRef
  /\ Becomes(ServiceReset(Service, "restore"))
  /\ UNCHANGED <<engineVars, toMain, driverVars, pauses>>
  /\ UNCHANGED besideWorker

\* the callback of setTimeout(runBatch, 0)
RunBatch ==
  /\ timers > 0
  /\ timers' = timers - 1
  /\ Becomes(ServiceStep(Service, ErosionBatchSize, "batch"))
  /\ UNCHANGED <<engineVars, toMain, hmRef, erosionWorkerRef, erosionRunning,
                 erosionProgress, pauses, stopAt>>
  /\ UNCHANGED besideWorker

DriverNext ==
  \/ \E p \in ParamSets : HandleStartErosion(p)
  \/ HandleStopErosion
  \/ HandleResetErosion
  \/ RunBatch
  \/ WorkerOnMessage
  \/ MainOnMessage

DriverSpec == WorkerInit /\ [][DriverNext]_vars

\* ------------------------------------------------------------ properties

\* the steps that are a call of stepDroplets(b) on an engine whose pool exists
IsStep(b) == poolDefined /\ returned' \in {"true", "false"} /\ StepDroplets(b)

\* the number of alive droplets of ds below index i
AliveBelow(ds, i) == Cardinality({j \in 1..(i - 1) : ds[j].alive})

AliveCount(ds) == Cardinality({j \in 1..Len(ds) : ds[j].alive})

\* the droplets whose step body ran in the step from the current state
Advanced == {i \in 1..Len(droplets) : advances'[i] # advances[i]}

\* C1: one stepDroplets(batchSize) runs the step body exactly once for each of
\* the min(batchSize, number alive at entry) lowest-indexed alive droplets;
\* every other droplet keeps all its fields, and a dead droplet is neither
\* stepped nor made alive again.
C1_BatchAdvancesLowestAlive ==
  [][\A b \in 0..MaxBatch : IsStep(b) =>
       /\ Len(droplets') = Len(droplets)
       /\ Cardinality(Advanced) = Min(b, AliveCount(droplets))
       /\ \A i \in 1..Len(droplets) :
            IF droplets[i].alive /\ AliveBelow(droplets, i) < b
            THEN /\ advances'[i] = advances[i] + 1
                 /\ droplets'[i].lifetime = droplets[i].lifetime + 1 \/ ~droplets'[i].alive
            ELSE /\ advances'[i] = advances[i]
                 /\ droplets'[i] = droplets[i]]_vars

\* a call with batch size 1 on a pool of two alive droplets has stepped the
\* first and left the second, which is still at its start
C1_Witness ==
  /\ Len(droplets) = 2
  /\ returned = "true"
  /\ advances = <<1, 0>>
  /\ droplets[1].alive
  /\ droplets[2].alive
  /\ droplets[2].lifetime = 0

\* C2: stepDroplets returns true exactly when some droplet of the whole pool,
\* inside the batch or not, is alive after the call; it returns false for
\* the empty pool of start(0).
C2_ReturnsWhetherPoolAlive ==
  /\ returned = "true" => \E i \in 1..Len(droplets) : droplets[i].alive
  /\ returned = "false" => \A i \in 1..Len(droplets) : ~droplets[i].alive
  /\ (poolDefined /\ returned \in {"true", "false"} /\ Len(droplets) = 0) => returned = "false"

\* the only droplet of the batch ended in the call, and the call returned
\* true for a droplet the batch did not reach
C2_Witness ==
  /\ Len(droplets) = 2
  /\ returned = "true"
  /\ ~droplets[1].alive
  /\ advances[1] >= 1
  /\ advances[2] = 0
  /\ droplets[2].alive

\* C3: a droplet is ended by the time its step body has run
\* maxDropletLifetime times, and the body never runs a
\* (maxDropletLifetime + 1)-th time for it.
C3_AtMostMaxLifetimeSteps ==
  \A i \in 1..Len(droplets) :
    /\ advances[i] <= params.maxDropletLifetime
    /\ advances[i] = params.maxDropletLifetime => ~droplets[i].alive

\* the step bodies the alive droplets of ds can still run before the
\* lifetime test ends them
StepsLeft(ds) ==
  SumSeq([i \in 1..Len(ds) |->
            IF ds[i].alive THEN params.maxDropletLifetime + 1 - ds[i].lifetime ELSE 0],
         Len(ds))

\* C4: after start, calling stepDroplets with a batch size >= 1 again and
\* again gets false from some call: every call on a pool with an alive
\* droplet uses up at least one of the finitely many step bodies the pool has
\* left, and a call that leaves none returns false.
C4_EveryCallUsesUpSteps ==
  [][\A b \in 1..MaxBatch : IsStep(b) =>
       /\ StepsLeft(droplets') >= 0
       /\ StepsLeft(droplets) > 0 => StepsLeft(droplets') < StepsLeft(droplets)
       /\ StepsLeft(droplets') = 0 => returned' = "false"]_vars

\* a pool of two droplets, both stepped, and the call that returned false
C4_Witness ==
  /\ Len(droplets) = 2
  /\ returned = "false"
  /\ advances[1] >= 1
  /\ advances[2] >= 1

\* the sediment the droplets of ds carry, in heightfield units
Carried(ds) == Fine * SumSeq([i \in 1..Len(ds) |-> ds[i].sediment], Len(ds))

\* C5 as stated: once a droplet has been stepped, on an engine constructed
\* from any heightfield, no cell of the heightfield is negative.
C5_NoNegativeCellAfterStep ==
  (\E d \in 1..Len(droplets) : advances[d] >= 1) =>
    \A i \in 1..Len(heightMap) : heightMap[i] >= 0

\* C5, amended: when no grid handed to the engine (to the constructor, to
\* start or to resetHeightMap) had a negative cell, no cell of the
\* heightfield is ever negative.
C5_NoNegativeCellFromNonNegative ==
  ~fedNegative => \A i \in 1..Len(heightMap) : heightMap[i] >= 0

\* an engine given non-negative grids only, started once: an erosion has
\* lowered the corners around the cliff grid's zero cell, the zero cell was
\* held at 0 by the clamp, and the droplets carry more than the heightfield
\* lost
C5_Witness ==
  LET cliff == Terrain("cliff", width, height)
  IN /\ ~fedNegative
     /\ starts = 1
     /\ returned \in {"true", "false"}
     /\ heightMap[ToIndex(width, 1, 2)] = 0
     /\ heightMap[ToIndex(width, 1, 1)] < cliff[ToIndex(width, 1, 1)]
     /\ heightMap[ToIndex(width, 2, 2)] < cliff[ToIndex(width, 2, 2)]
     /\ GridSum(heightMap) + Carried(droplets) > GridSum(cliff)

\* C6: a stepDroplets call that steps one droplet, and so makes at most one
\* deposit or one erosion, leaves the sum of the heightfield's cells plus the
\* sediment the droplets carry unchanged (on an engine that was given
\* non-negative grids only).
C6_MassConserved ==
  [][(~fedNegative /\ IsStep(1)) =>
       GridSum(heightMap') + Carried(droplets') = GridSum(heightMap) + Carried(droplets)]_vars

\* C7: between pause() and the next resume(), a stepDroplets call advances no
\* droplet and changes no cell.
C7_PausedStepDoesNothing ==
  [][(dropletsActive = "false" /\ \E b \in 0..MaxBatch : IsStep(b)) =>
       UNCHANGED <<droplets, heightMap, advances>>]_vars

\* C8: pause() and resume() change neither the heightfield nor any field of
\* any droplet.
C8_PauseResumeKeepState ==
  [][(Pause \/ Resume) =>
       /\ heightMap' = heightMap
       /\ Len(droplets') = Len(droplets)
       /\ \A i \in 1..Len(droplets) : droplets'[i] = droplets[i]]_vars

\* the engine right after pause(), with a droplet in mid-flight
C8_Witness ==
  /\ dropletsActive = "false"
  /\ returned = "none"
  /\ cloned = NoGrid
  /\ lastReset = NoGrid
  /\ \E i \in 1..Len(droplets) :
       droplets[i].alive /\ advances[i] >= 1 /\ droplets[i].sediment > 0

\* C9: resetHeightMap(g) makes the heightfield equal to g and leaves the
\* droplet pool, with the position, water, sediment and lifetime of every
\* droplet, as it was; only start makes a new pool.
C9_ResetKeepsPool ==
  [][/\ \A g \in ResetGrids(width, height) : ResetHeightMap(g) =>
          /\ heightMap' = g
          /\ poolDefined' = poolDefined
          /\ droplets' = droplets
          /\ advances' = advances
     /\ (poolDefined /\ \E i \in 1..Len(droplets) :
                          i > Len(droplets') \/ droplets'[i].lifetime < droplets[i].lifetime)
          => starts' = starts + 1]_vars

\* the engine right after resetHeightMap, with a droplet in mid-flight that
\* carries sediment of the heightfield that was replaced
C9_Witness ==
  /\ lastReset # NoGrid
  /\ cloned = NoGrid
  /\ heightMap = lastReset
  /\ \E i \in 1..Len(droplets) :
       droplets[i].alive /\ advances[i] >= 1 /\ droplets[i].sediment > 0

\* C10: the array cloneHeightMap() returns right after resetHeightMap(original)
\* equals original cell by cell.
C10_CloneAfterResetIsOriginal ==
  (lastReset # NoGrid /\ cloned # NoGrid) =>
    /\ Len(cloned) = Len(lastReset)
    /\ \A i \in 1..Len(lastReset) : cloned[i] = lastReset[i]

\* resetHeightMap then cloneHeightMap on an engine whose heightfield had been
\* eroded: a droplet carries sediment
C10_Witness ==
  /\ lastReset # NoGrid
  /\ cloned # NoGrid
  /\ \E i \in 1..Len(droplets) : droplets[i].sediment > 0

\* a caller's write, and a stepDroplets call that ran its loop, under CallerSpec
IsCallerWrite == \E src \in callerArrays : CallerWrite(src, WriteCell, WriteValue)
IsCallerStep ==
  /\ poolDefined
  /\ returned' \in {"true", "false"}
  /\ \E onStep \in BOOLEAN : CallerStep(1, onStep)

\* C11: the array this.heightMap refers to is never one the caller holds: after
\* the constructor, start with a reset, resetHeightMap, cloneHeightMap and the
\* onStep callback a write by the caller leaves the engine's heights as they
\* were, and a stepDroplets call leaves every array the caller holds as it was.
C11_HeightMapNeverShared ==
  [][/\ thisHeightMap' \notin callerArrays'
     /\ (IsCallerWrite => heightMap' = heightMap)
     /\ (IsCallerStep => \A r \in callerArrays : heap'[r] = heap[r])]_vars

\* C11 happens: the caller holds an array it passed in and wrote afterwards,
\* and one it was handed, while the engine has eroded its own heights
C11_Witness ==
  /\ heap # <<>>
  /\ Cardinality(callerArrays) >= 2
  /\ heap[1][WriteCell] = WriteValue
  /\ heightMap[WriteCell] # WriteValue
  /\ \E i \in 1..Len(advances) : advances[i] >= 1
  /\ \E r \in callerArrays : r # 1 /\ heap[r] # heightMap

\* a start() call
IsStart == starts' = starts + 1

\* whether position (x, y) is in the region a droplet survives a step in (the
\* test of stepDroplets after the move)
InsideMargin(x, y, w, h) ==
  /\ PosScale <= x /\ x <= (w - 2) * PosScale
  /\ PosScale <= y /\ y <= (h - 2) * PosScale

\* C12: after start() every droplet of the pool is alive, carries no sediment,
\* has lifetime 0, the initial volume and speed, no direction, and a position
\* with 1 <= x <= width - 2 and 1 <= y <= height - 2.
C12_StartPoolInsideMargin ==
  [][IsStart =>
       /\ poolDefined'
       /\ Len(advances') = Len(droplets')
       /\ \A i \in 1..Len(droplets') :
            /\ droplets'[i].alive
            /\ droplets'[i].sediment = 0
            /\ droplets'[i].lifetime = 0
            /\ advances'[i] = 0
            /\ droplets'[i].water = params.initialVolume
            /\ droplets'[i].speed = params.initialSpeed
            /\ droplets'[i].dx = 0 /\ droplets'[i].dy = 0
            /\ InsideMargin(droplets'[i].x, droplets'[i].y, width, height)]_vars

\* the elements _bilinearInterp(heightMap, x, y) reads
InterpReads(w, h, x, y) ==
  IF InterpFallback(w, h, CellOf(x), CellOf(y)) THEN {}
  ELSE {ToIndex(w, CellOf(x), CellOf(y)), ToIndex(w, CellOf(x) + 1, CellOf(y)),
        ToIndex(w, CellOf(x), CellOf(y) + 1), ToIndex(w, CellOf(x) + 1, CellOf(y) + 1)}

\* the elements _calcGradient(heightMap, x, y) reads
GradientReads(w, h, x, y) ==
  IF GradientFallback(w, h, CellOf(x), CellOf(y)) THEN {}
  ELSE InterpReads(w, h, x - PosScale, y) \cup InterpReads(w, h, x + PosScale, y)
       \cup InterpReads(w, h, x, y - PosScale) \cup InterpReads(w, h, x, y + PosScale)

\* the elements _bilinearAdd(heightMap, x, y, ...) reads and writes
AddWrites(w, h, x, y) ==
  IF x >= 0 /\ y >= 0 /\ x < w - 1 /\ y < h - 1
  THEN {ToIndex(w, x, y), ToIndex(w, x + 1, y), ToIndex(w, x, y + 1), ToIndex(w, x + 1, y + 1)}
  ELSE {}

\* the elements the step of droplet d touches, moved being the droplet after
\* the step: the height and the gradient at the old position, and for a droplet
\* the border test lets through the height at the new position and the
\* erosion or deposit at the old cell
StepAccesses(d, moved, w, h) ==
  InterpReads(w, h, d.x, d.y) \cup GradientReads(w, h, d.x, d.y)
  \cup (IF OutOfBounds(moved, w, h) THEN {}
        ELSE InterpReads(w, h, moved.x, moved.y) \cup AddWrites(w, h, CellOf(d.x), CellOf(d.y)))

\* the step r of droplet d on the heights hm stays inside the array, and ends
\* the droplet without a write when it leaves the droplet outside the margin
StepStaysInside(d, r, hm, w, h) ==
  /\ StepAccesses(d, r.d, w, h) \subseteq 1..(w * h)
  /\ ~InsideMargin(r.d.x, r.d.y, w, h) => ~r.d.alive /\ r.hm = hm

\* C13: whichever alive droplet stepDroplets steps next, the step reads and
\* writes only elements 0 .. width * height - 1 of the heightfield (1 .. width *
\* height here), and a droplet that is outside 1 <= x <= width - 2, 1 <= y <=
\* height - 2 after its move is ended by that step with every cell unchanged.
C13_StepStaysInsideArray ==
  poolDefined =>
    \A i \in 1..Len(droplets) :
      droplets[i].alive =>
        StepStaysInside(droplets[i], StepDroplet(droplets[i], heightMap, width, height, params),
                        heightMap, width, height)

\* C13 happens: a droplet created beyond width - 2 was ended by its first step,
\* and another droplet was stepped on a heightfield an earlier step had eroded
C13_Witness ==
  /\ poolDefined
  /\ Len(droplets) = 2
  /\ droplets[1].x > (width - 2) * PosScale
  /\ ~droplets[1].alive /\ advances[1] = 1 /\ droplets[1].lifetime = 0
  /\ advances[2] >= 2
  /\ heightMap # Terrain("cliff", width, height)
  /\ heightMap # Terrain("basin", width, height)

\* whether position (x, y) is off the grid 0 <= x <= width - 1, 0 <= y <= height - 1
OffGrid(x, y, w, h) ==
  x < 0 \/ x > (w - 1) * PosScale \/ y < 0 \/ y > (h - 1) * PosScale

\* the four positions _calcGradient samples around (x, y)
Samples(x, y) == {<<x - PosScale, y>>, <<x + PosScale, y>>, <<x, y - PosScale>>, <<x, y + PosScale>>}

\* C14: a height query off the grid is answered 0; a gradient query with a
\* sample off the grid is answered (0, 0); and a gradient query that is not
\* answered by the fallback takes all four samples from the heights, none
\* from the 0 of an off-grid height query.
C14_QueriesOffGridFallBack ==
  query # NoQuery =>
    /\ OffGrid(query[1], query[2], width, height) => answer.height = 0
    /\ (\E s \in Samples(query[1], query[2]) : OffGrid(s[1], s[2], width, height))
         => answer.grad = [gx |-> 0, gy |-> 0]
    /\ ~GradientFallback(width, height, CellOf(query[1]), CellOf(query[2]))
         => \A s \in Samples(query[1], query[2]) :
              /\ ~OffGrid(s[1], s[2], width, height)
              /\ InterpReads(width, height, s[1], s[2]) # {}

\* C14 happens: a query inside the first column, where the gradient's left
\* sample would be off the grid, was answered with a height read from the
\* grid and the gradient (0, 0)
C14_Witness ==
  /\ query # NoQuery
  /\ CellOf(query[1]) = 0 /\ query[1] > 0
  /\ CellOf(query[2]) = 1
  /\ answer.height # 0
  /\ answer.grad = [gx |-> 0, gy |-> 0]

\* droplets' and heightMap' are the steps r1 of the first and r2 of the second droplet
SteppedInOrder(r1, r2) ==
  /\ droplets' = <<r1.d, r2.d>>
  /\ heightMap' = r2.hm

\* the second droplet is stepped on the heights the step r1 of the first left
SecondAfter(r1) ==
  SteppedInOrder(r1, StepDroplet(droplets[2], r1.hm, width, height, params))

\* C15: a stepDroplets call that steps two alive droplets steps the one of the
\* lower index first and the other on the heightfield the first has left: the
\* pool and the heightfield after the call are those of the two single steps
\* in ascending index order, a function of the pool and heightfield before.
C15_BatchStepsInIndexOrder ==
  [][(/\ poolDefined /\ Len(droplets) = 2
      /\ droplets[1].alive /\ droplets[2].alive
      /\ IsStep(2))
     => SecondAfter(StepDroplet(droplets[1], heightMap, width, height, params))]_vars

\* the step of the second droplet differs when it follows the step r1 of the first
OrderMatters(r1) ==
  StepDroplet(droplets[2], r1.hm, width, height, params).d
    # StepDroplet(droplets[2], heightMap, width, height, params).d

\* C15 happens: two droplets that have both been stepped are alive, and the
\* second one's next step depends on what the first one's step does to the
\* heightfield
C15_Witness ==
  /\ poolDefined /\ Len(droplets) = 2
  /\ droplets[1].alive /\ droplets[2].alive
  /\ advances[1] >= 1 /\ advances[2] >= 1
  /\ OrderMatters(StepDroplet(droplets[1], heightMap, width, height, params))

\* the cells that drain to themselves
Sinks == {idx \in FlowCells : downslope[idx + 1] = idx}

\* C16: when computeFlowMap returns, the flow of the sinks adds up to the
\* number of cells, width * height.
C16_SinkFlowIsCellCount ==
  flowPc = "returned" =>
    SumSeq([k \in 1..Len(flowMap) |-> IF (k - 1) \in Sinks THEN flowMap[k] ELSE 0],
           Len(flowMap)) = FlowWidth * FlowHeight

\* the cells the accumulation loop has been through
Pushed == {indices[k] : k \in 1..flowAt}

\* C17: when the accumulation loop comes to a cell, every other cell that
\* drains into it has been through the loop already, so that what the cell
\* hands down is the full count of the cells above it.
C17_PushesAfterAllInflows ==
  [][Accumulate =>
       \A j \in FlowCells :
         (downslope[j + 1] = indices[flowAt + 1] /\ j # indices[flowAt + 1]) => j \in Pushed]_vars

\* the in-grid neighbours of cell idx
Neighbours(idx) ==
  {j \in FlowCells :
     /\ j # idx
     /\ (j % FlowWidth) - (idx % FlowWidth) \in {-1, 0, 1}
     /\ (j \div FlowWidth) - (idx \div FlowWidth) \in {-1, 0, 1}}

\* the neighbours of idx no neighbour is lower than
Lowest(idx) ==
  {j \in Neighbours(idx) : \A k \in Neighbours(idx) : flowHeights[j + 1] <= flowHeights[k + 1]}

\* the cell reached from idx by following downslope n times
RECURSIVE Follow(_, _)
Follow(idx, n) == IF n = 0 THEN idx ELSE Follow(downslope[idx + 1], n - 1)

\* C18: once the routing is computed, a cell with a strictly lower neighbour
\* drains to the first of its lowest neighbours in row-major order, every
\* other cell (a cell of a plateau, a pit) drains to itself, and following
\* the routing from any cell ends in a sink.
C18_RoutesToFirstLowestNeighbour ==
  flowPc \in {"accumulate", "returned"} =>
    \A idx \in FlowCells :
      /\ IF \E j \in Neighbours(idx) : flowHeights[j + 1] < flowHeights[idx + 1]
         THEN /\ downslope[idx + 1] \in Lowest(idx)
              /\ \A j \in Lowest(idx) : downslope[idx + 1] <= j
         ELSE downslope[idx + 1] = idx
      /\ Follow(idx, FlowWidth * FlowHeight) \in Sinks

\* C18 happens: the routing is computed for a grid with a cell that has two
\* lowest neighbours below it, and a cell on a plateau with no lower neighbour
C18_Witness ==
  /\ flowPc = "returned"
  /\ \E idx \in FlowCells :
       /\ Cardinality(Lowest(idx)) >= 2
       /\ downslope[idx + 1] # idx
  /\ \E idx \in FlowCells :
       /\ downslope[idx + 1] = idx
       /\ \E j \in Neighbours(idx) : flowHeights[j + 1] = flowHeights[idx + 1]

IsGenerate == Len(generated') = Len(generated) + 1

\* params that give no grid: gridWidth = meshResolution + 1 is not positive
Malformed(p) == p.meshResolution + 1 <= 0

\* C20: generateTerrainInternal with params that give a non-positive grid
\* dimension, and start with a droplet count that is not positive, fail with
\* a configuration error: no grid is returned, and the pool, the flag
\* dropletsActive and the heightfield of the engine stay as they were.
C20_MalformedParamsFailFast ==
  [][/\ (IsGenerate /\ Malformed(generated'[Len(generated')].params))
        => generated'[Len(generated')].outcome = "throws"
     /\ (IsStart /\ Len(droplets') = 0)
        => (/\ returned' = "throws"
            /\ UNCHANGED <<poolDefined, droplets, dropletsActive, heightMap>>)]_vars

\* the parameter ranges C30 is stated for
InRange(p) ==
  /\ p.depositionRate > 0 /\ p.depositionRate <= Scale
  /\ p.evaporationRate > 0 /\ p.evaporationRate < Scale
  /\ p.sedimentCapacityFactor >= 0

\* a droplet ended by the border test: only that test leaves a dead droplet
\* outside the interior, and it skips the rest of the step
EndedAtBorder(d) == ~d.alive /\ OutOfBounds(d, width, height)

\* the step bodies droplet i completed, that is ran to the lifetime count
Completed(ds, adv, i) == adv[i] - (IF EndedAtBorder(ds[i]) THEN 1 ELSE 0)

\* C30: with depositionRate in (0, 1], evaporationRate in (0, 1) and a
\* non-negative sedimentCapacityFactor, after every stepDroplets call each
\* droplet carries a sediment >= 0, has no more water than before the call,
\* and has a lifetime equal to the number of step bodies it completed, the
\* one that ended it at the border not counted.
C30_DropletCountersSound ==
  [][(poolDefined /\ returned' \in {"true", "false"} /\ InRange(params))
       => \A i \in 1..Len(droplets') :
            /\ droplets'[i].sediment >= 0
            /\ droplets'[i].water <= droplets[i].water
            /\ droplets'[i].lifetime = Completed(droplets', advances', i)]_vars

\* two droplets of one pool: the first was ended at the border in its first
\* step body, which its lifetime does not count; the second completed two
\* step bodies, lost water in them and carries sediment
C30_Witness ==
  /\ InRange(params)
  /\ Len(droplets) = 2
  /\ EndedAtBorder(droplets[1]) /\ advances[1] = 1 /\ droplets[1].lifetime = 0
  /\ advances[2] = 2 /\ droplets[2].lifetime = 2
  /\ droplets[2].water < params.initialVolume
  /\ droplets[2].sediment > 0

\* the number the driver's subtraction erosionDroplets - alive makes of the
\* value stepDroplets returned and the worker posted: true is 1, false is 0
ToNumber(r) == IF r = "true" THEN 1 ELSE 0

\* C23: after each stepDroplets call the value the engine returns, which the
\* worker posts as alive and the driver subtracts from the number of
\* droplets, is the count of the droplets that are still alive.
C23_SurfacesAliveCount ==
  returned \in {"true", "false"} => ToNumber(returned) = AliveCount(droplets)

\* the step r of droplet d on the heights hm: the sediment that left or joined
\* the droplet was spread by _bilinearAdd at the cell and offsets of the
\* position the droplet has after its move
SpreadAtReached(d, r, hm, w, h) ==
  r.d.sediment # d.sediment =>
    r.hm = BilinearAdd(hm, w, h, CellOf(r.d.x), CellOf(r.d.y), OffOf(r.d.x), OffOf(r.d.y),
                       d.sediment - r.d.sediment)

C22_LengthIsWidthTimesHeight == Len(heightMap) = width * height

\* the weight a smoothing function gives the cell itself
SelfWeight(service) == IF service = "HeightmapGenerationService" THEN 1 ELSE 6

\* C24: a smoothing call leaves the heights that smoothIterations passes
\* leave, each pass blending every cell toward the weighted average of its 3 x 3
\* neighbourhood by smoothFactor and reading the previous pass only; so
\* smoothIterations = 0 and smoothFactor = 0 each leave the heights as they
\* were.
C24_SmoothsAsAsked ==
  smoothed # NoCall =>
    /\ smoothed.z = SmoothPasses(surface, SmoothWidth, SmoothHeight,
                                 SelfWeight(smoothed.service), smoothed.params.smoothFactor,
                                 0, smoothed.params.smoothIterations)
    /\ (smoothed.params.smoothIterations = 0 \/ smoothed.params.smoothFactor = 0)
         => smoothed.z = surface

\* C21: a generation whose cellular-noise backend throws or is left without
\* points does not fail: its noise object is the brute-force fallback over the
\* points created from the same seed and the same point count, and it returns
\* a heightfield of gridWidth * gridHeight cells.
C21_BackendFailureFallsBack ==
  (worleyRun # NoCall /\ worleyRun.backend \in {"throws", "empty"}) =>
    /\ worleyRun.result.outcome = "returns"
    /\ worleyRun.worley.kind = "fallback"
    /\ worleyRun.worley.points =
         CreateWorleyPointsInternal(NumWorleyPoints(worleyRun.params, worleyRun.generator),
                                    WorleySeedActual(worleyRun.params))
    /\ Len(worleyRun.worley.points) >= MinPoints
    /\ Len(worleyRun.result.heightmap) =
         (worleyRun.params.meshResolution + 1) * (worleyRun.params.meshResolution + 1)

\* generateTerrainInternal was called with a worleySeed of its own and more
\* points than the maximum, the library threw, and the 4 x 4 heights returned
\* are not all zero
C21_Witness ==
  /\ worleyRun # NoCall
  /\ worleyRun.generator = "HeightmapGenerationService"
  /\ worleyRun.backend = "throws"
  /\ worleyRun.params.worleySeed = 3
  /\ worleyRun.params.worleyPoints > MaxPoints
  /\ Len(worleyRun.worley.points) = MaxPoints
  /\ Len(worleyRun.result.heightmap) = 16
  /\ \E i \in 1..16 : worleyRun.result.heightmap[i] # 0

\* the progress values among the first n messages the worker posted
ProgressValues(n) == {j \in 1..n : posted[j].type = "progress"}

\* C29: of the messages one generation request makes the worker post, every
\* progress value lies in [0, 1] and is not below the one before it, whichever
\* layers are enabled, and there is exactly one 'done', which is the last
\* message.
C29_ProgressRisesWithinUnit ==
  terrainPc = "ran" =>
    /\ \A j \in ProgressValues(Len(posted)) :
         /\ posted[j].progress >= 0 /\ posted[j].progress <= Scale
         /\ \A k \in ProgressValues(j) : posted[k].progress <= posted[j].progress
    /\ posted[Len(posted)].type = "done"
    /\ Cardinality({j \in 1..Len(posted) : posted[j].type = "done"}) = 1

\* C26: once init was called with the caller's original array, that array
\* still holds the values it had, whatever steps follow; a reset called with
\* it is not rejected, and once it is resolved the worker's heightfield holds
\* those values.
C26_OriginalKeptForReset ==
  Calls("init") = 1 =>
    /\ ~original.detached
    /\ original.elements = Terrain("cliff", 5, 4)
    /\ \A i \in 1..Len(promises) :
         promises[i].kind = "reset" =>
           /\ promises[i].state # "rejected"
           /\ promises[i].state = "resolved" => heightMap = Terrain("cliff", 5, 4)

\* C27: a promise of init, step or reset that is resolved was resolved by
\* the worker's reply to its own request, whatever the order of the calls
\* and the replies.
C27_ResolvedByOwnReply ==
  \A i \in 1..Len(promises) : promises[i].state = "resolved" => promises[i].reply = i

\* C28: when Stop is requested while the batch loop of a run is under way, at
\* most the batch that is due is still requested: no second step request
\* follows it.
C28_StopEndsBatchLoop ==
  stopAt >= 1 => Calls("step") <= stopAt + 1

====
